---- MODULE Spec2Model ----
(***************************************************************************)
(* Window registry, request/reply sessions and panel dock table of the     *)
(* editor framework (src/lib/main/editor-window.js).                       *)
(*                                                                         *)
(* Windows are numbered 1..nwin in creation order; a window's number is    *)
(* also the identity of its native BrowserWindow.  0 stands for a null or  *)
(* undefined window reference.  Panel identifiers are strings, written as  *)
(* tuples of one-character strings so that split('.') is computed.         *)
(***************************************************************************)
EXTENDS Integers, Sequences, FiniteSets, TLC

MaxWindows == 2

MaxRequests == 2

NaN == -4

NoWin == 0

Undef == -1

NoRet == -2

NullRet == -3

WindowTypes == {"dockable", "float", "fixed-size", "quick"}

Argv == {1, 2}

PAB == <<"a", ".", "b">>

PBA == <<"b", ".", "a">>

PNoDot == <<"a", "b">>

PCD == <<"c", ".", "d">>

PanelIDs == {PAB, PBA, PNoDot}

OpenPanelIDs == {PAB, PCD}

AllPanelIDs == PanelIDs \cup OpenPanelIDs

PackageNames == {<<"a">>, <<"b">>}

(* panel declarations of a manifest; Undef is a field it does not give *)
PanelInfos ==
  [type : {"fixed-size", "undefined"},
   width : {Undef, 100, 300, 500}, height : {Undef, 100, 500},
   minWidth : {Undef, 200}, minHeight : {200},
   maxWidth : {Undef, 400}, maxHeight : {400}]

(* persisted layout profiles of a panel *)
LayoutProfiles == [width : {Undef, 250}, height : {0, 250}]

WinIds == 1..MaxWindows

SessionIds == 0..(MaxRequests - 1)

(* the fixture packages of the tests, and three packages with more than one
   dependency: siblings of which one depends on another, a dependency that
   is loaded earlier as the dependency of another package, and a dependency
   that fails to load *)
Packages ==
  {"simple", "main-deps", "package-json-broken", "host-not-exists",
   "main-js-broken", "package-deps", "dep-01", "dep-02", "siblings",
   "nested", "broken-dep"}

(* require.cache before any package is loaded *)
FrameworkModules == {"editor/init.js"}

(* Editor.runMode *)
RunModes == {"dev", "test"}

VARIABLES
  windows,        \* _windows: sequence of window numbers
  win,            \* the EditorWindow objects, by number
  nwin,           \* how many EditorWindow objects were constructed
  native,         \* state of each native BrowserWindow
  mainWindow,     \* Editor.mainWindow
  quit,           \* number of Editor._quit() calls
  panel2windows,  \* _panel2windows: set of <<panelID, window>> properties
  panel2argv,     \* _panel2argv: set of <<panelID, argv>> properties
  invoked,        \* history: how often each reply callback was invoked
  issued,         \* history: session ids returned by sendRequestToPage
  cancelled,      \* history: sessions passed to cancelRequestToPage while pending
  last,           \* the last operation: its name, inputs, return value, calls
  loadedPackages, \* the names of the loaded packages
  requireCache,   \* require.cache: the cached script modules
  recordedModules,\* the modules recorded as cached because of each package
  sentToWindows,  \* the calls of Editor.sendToWindows during the operation
  pkgTask,        \* the package operation under way or last completed
  winName,        \* this.name of each EditorWindow
  winSave,        \* this.save of each EditorWindow
  windowLayouts,  \* _windowLayouts: set of <<name, info>> properties
  profileWindows, \* profile.windows of the saved layout.windows profile
  runMode         \* Editor.runMode

winVars == <<windows, win, nwin, native, mainWindow, quit, panel2windows,
             panel2argv, invoked, issued, cancelled, last>>

pkgVars == <<loadedPackages, requireCache, recordedModules, sentToWindows,
             pkgTask>>

layoutVars == <<winName, winSave, windowLayouts, profileWindows, runMode>>

(* the variables the operations on windows and panels leave alone; the
   'close' handler records its calls of commitWindowStates and
   saveWindowStates in last, and the part on window layouts adds what they
   do to the layout table and to the profile *)
extVars == <<pkgVars, layoutVars>>

vars == <<winVars, pkgVars, layoutVars>>

----------------------------------------------------------------------------
(* JavaScript objects used as string-keyed tables *)

Keys(obj) == {e[1] : e \in obj}

Has(obj, k) == \E e \in obj : e[1] = k

Get(obj, k) == IF Has(obj, k) THEN (CHOOSE e \in obj : e[1] = k)[2] ELSE Undef

Put(obj, k, v) == {e \in obj : e[1] # k} \cup {<<k, v>>}

DeleteNothing(obj, k) == obj

Delete(obj, k) == {e \in obj : e[1] # k}

Truthy(w) == w # NoWin /\ w # Undef

(* the keys of a table in the order a for-in loop visits them; the loops of
   this program compute results that do not depend on that order except for
   the order of the elements of a returned list *)
RECURSIVE KeySeq(_)
KeySeq(S) ==
  IF S = {} THEN <<>>
  ELSE LET k == CHOOSE x \in S : TRUE IN <<k>> \o KeySeq(S \ {k})

RECURSIVE SortedSeq(_)
SortedSeq(S) ==
  IF S = {} THEN <<>>
  ELSE LET m == CHOOSE x \in S : \A y \in S : x <= y
       IN <<m>> \o SortedSeq(S \ {m})

----------------------------------------------------------------------------
(* calls an operation makes on its collaborators, in order *)

Ev(ev, ch, w, p, n) == [ev |-> ev, ch |-> ch, w |-> w, p |-> p, n |-> n]

Op(op, w, p, n, ret, retWins, events) ==
  [op |-> op, w |-> w, p |-> p, n |-> n, ret |-> ret, retWins |-> retWins,
   events |-> events]

BlankWindow ==
  [windowType |-> "dockable", nativeWin |-> NoWin, nextSessionId |-> 0,
   replyCallbacks |-> {}, hideWhenBlur |-> FALSE,
   resizable |-> "unset", alwaysOnTop |-> "unset"]

InitMode(mode) ==
  /\ windows = <<>>
  /\ win = [w \in WinIds |-> BlankWindow]
  /\ nwin = 0
  /\ native = [w \in WinIds |-> "none"]
  /\ mainWindow = NoWin
  /\ quit = 0
  /\ panel2windows = {}
  /\ panel2argv = {}
  /\ invoked = [w \in WinIds |-> [s \in SessionIds |-> 0]]
  /\ issued = [w \in WinIds |-> {}]
  /\ cancelled = [w \in WinIds |-> {}]
  /\ last = Op("init", NoWin, <<>>, 0, NoRet, <<>>, <<>>)
  /\ loadedPackages = {}
  /\ requireCache = FrameworkModules
  /\ recordedModules = [p \in Packages |-> {}]
  /\ sentToWindows = <<>>
  /\ pkgTask = [op |-> "none", path |-> "", stack |-> <<>>, queue |-> <<>>,
                cb |-> "none", err |-> "", before |-> {},
                prev |-> <<"none", "", "none">>]
  /\ winName = [w \in WinIds |-> ""]
  /\ winSave = [w \in WinIds |-> TRUE]
  /\ windowLayouts = {}
  /\ profileWindows = {}
  /\ runMode = mode

(* the run mode is read by saveWindowStates only: the parts that leave the
   layouts alone run in one mode *)
Init == InitMode("dev")

InitLayout == \E mode \in RunModes : InitMode(mode)

----------------------------------------------------------------------------
(* EditorWindow *)

Created == 1..nwin

(* how many sessions the windows have allocated together, for the MaxRequests cap *)
RECURSIVE SessionsUpTo(_)
SessionsUpTo(n) == IF n = 0 THEN 0 ELSE win[n].nextSessionId + SessionsUpTo(n - 1)

TotalSessions == SessionsUpTo(nwin)

TypeDefaultsFloat(windowType) == <<"true", "true", FALSE>>

(* the window-type switch of the constructor: <<resizable, alwaysOnTop, hideWhenBlur>>;
   "unset" is an option the constructor leaves as the caller gave it *)
TypeDefaults(windowType) ==
  CASE windowType = "dockable"   -> <<"true", "false", FALSE>>
    [] windowType = "float"      -> <<"true", "true", FALSE>>
    [] windowType = "fixed-size" -> <<"false", "true", FALSE>>
    [] windowType = "quick"      -> <<"true", "true", TRUE>>
    [] OTHER                     -> <<"unset", "unset", FALSE>>

(* _.defaultsDeep(options, {windowType: 'dockable', ...}) *)
DefaultType(optType) == IF optType = "undefined" THEN "dockable" ELSE optType

(* new Editor.Window(name, options): the object it builds *)
Construct(optType, id) ==
  [windowType |-> DefaultType(optType), nativeWin |-> id, nextSessionId |-> 0,
   replyCallbacks |-> {}, hideWhenBlur |-> TypeDefaults(DefaultType(optType))[3],
   resizable |-> TypeDefaults(DefaultType(optType))[1],
   alwaysOnTop |-> TypeDefaults(DefaultType(optType))[2]]

AddWindow(ws, w) == Append(ws, w)

RECURSIVE IndexOf(_, _, _)
IndexOf(ws, w, i) ==
  IF i > Len(ws) THEN 0 ELSE IF ws[i] = w THEN i ELSE IndexOf(ws, w, i + 1)

RemoveWindowLast(ws, w) == IF ws = <<>> THEN ws ELSE SubSeq(ws, 1, Len(ws) - 1)

(* removeWindow: indexOf, then splice(idx, 1) *)
RemoveWindow(ws, w) ==
  LET idx == IndexOf(ws, w, 1)
  IN IF idx = 0 THEN ws
     ELSE [i \in 1..(Len(ws) - 1) |-> IF i < idx THEN ws[i] ELSE ws[i + 1]]

RECURSIVE FindFrom(_, _, _)
FindFrom(ws, h, i) ==
  IF i > Len(ws) THEN NoWin
  ELSE IF win[ws[i]].nativeWin = h THEN ws[i] ELSE FindFrom(ws, h, i + 1)

(* Editor.Window.find(nativeWin) *)
Find(h) == IF h # NoWin THEN FindFrom(windows, h, 1) ELSE NoWin

IsMainWindowNever(w) == FALSE

(* get isMainWindow: Editor.mainWindow === this *)
IsMainWindow(w) == mainWindow = w

(* sendToPage: the calls it makes; with nativeWin null, reading
   this.nativeWin.webContents throws a TypeError *)
SendToPage(w, ch, p, n) ==
  IF win[w].nativeWin = NoWin
    THEN <<Ev("throw", "TypeError", w, <<>>, 0)>>
    ELSE <<Ev("send", ch, w, p, n)>>

Threw(events) == \E i \in DOMAIN events : events[i].ev = "throw"

(* senders an ipc message can come from: a live page, or 0 for a sender
   that BrowserWindow.fromWebContents does not resolve *)
Senders == {NoWin} \cup {h \in Created : native[h] \in {"open", "closeRequested", "closing"}}

(* ipcMain.on('window:open') *)
WindowOpen(optType) ==
  /\ nwin < MaxWindows
  /\ LET id == nwin + 1 IN
       /\ nwin' = id
       /\ win' = [win EXCEPT ![id] = Construct(optType, id)]
       /\ native' = [native EXCEPT ![id] = "open"]
       /\ windows' = AddWindow(windows, id)
       /\ last' = Op("window:open", id, <<>>, 0, NoRet, <<>>,
                     <<Ev("new", DefaultType(optType), id, <<>>, 0),
                       Ev("load", "url", id, <<>>, 0),
                       Ev("show", "", id, <<>>, 0)>>)
  /\ UNCHANGED <<mainWindow, quit, panel2windows, panel2argv, invoked, issued, cancelled>>

(* application start-up: Editor.mainWindow = <a window it created> *)
SetMainWindow(w) ==
  /\ w \in Created
  /\ native[w] = "open"
  /\ mainWindow = NoWin
  /\ quit = 0
  /\ mainWindow' = w
  /\ last' = Op("setMainWindow", w, <<>>, 0, NoRet, <<>>, <<>>)
  /\ UNCHANGED <<windows, win, nwin, native, quit, panel2windows, panel2argv,
                 invoked, issued, cancelled>>

(* a call of sendToPage(channel) on window w *)
CallSendToPage(w) ==
  /\ w \in Created
  /\ last' = Op("sendToPage", w, <<>>, 0, NoRet, <<>>,
                SendToPage(w, "channel", <<>>, 0))
  /\ UNCHANGED <<windows, win, nwin, native, mainWindow, quit, panel2windows,
                 panel2argv, invoked, issued, cancelled>>

NextSessionIdSame(id) == id

(* let sessionId = this._nextSessionId++ : the value the field has afterwards *)
NextSessionId(id) == id + 1

RejectsAnyArgs(channelIsString, argsKind) ==
  IF ~channelIsString THEN "The channel must be string"
  ELSE IF argsKind = "none" THEN "Invalid arguments, reply function not found!"
  ELSE ""

(* the argument checks of sendRequestToPage: the error it logs before it
   returns null, "" when it goes on.  channelIsString tells typeof channel,
   argsKind the shape of args: "none", "nofunc" (the last is no function),
   "func" (the last is a function) *)
Rejects(channelIsString, argsKind) ==
  IF ~channelIsString THEN "The channel must be string"
  ELSE IF argsKind = "none" THEN "Invalid arguments, reply function not found!"
  ELSE IF argsKind # "func" THEN "The last argument must be function"
  ELSE ""

(* sendRequestToPage(channel, ...args) *)
SendRequestToPage(w, channelIsString, argsKind) ==
  /\ w \in Created
  /\ IF Rejects(channelIsString, argsKind) # ""
       THEN /\ last' = Op("sendRequestToPage", NoWin, <<>>, 0, NullRet, <<>>,
                          <<Ev("error", Rejects(channelIsString, argsKind),
                               NoWin, <<>>, 0)>>)
            /\ UNCHANGED <<win, issued>>
       ELSE LET sessionId == win[w].nextSessionId
                events == SendToPage(w, "editor:sendreq2page", <<>>, sessionId)
            IN /\ TotalSessions < MaxRequests
               /\ win' = [win EXCEPT ![w].nextSessionId = NextSessionId(sessionId),
                                     ![w].replyCallbacks = @ \cup {sessionId}]
               /\ issued' = IF Threw(events) THEN issued
                            ELSE [issued EXCEPT ![w] = @ \cup {sessionId}]
               /\ last' = Op("sendRequestToPage", w, <<>>, 0,
                             IF Threw(events) THEN NoRet ELSE sessionId, <<>>, events)
  /\ UNCHANGED <<windows, nwin, native, mainWindow, quit, panel2windows,
                 panel2argv, invoked, cancelled>>

CancelNothing(cbs, sessionId) == cbs

(* delete this._replyCallbacks[sessionId] *)
CancelRequest(cbs, sessionId) == cbs \ {sessionId}

CancelRequestToPage(w, sessionId) ==
  /\ w \in Created
  /\ win' = [win EXCEPT ![w].replyCallbacks = CancelRequest(@, sessionId)]
  /\ cancelled' = IF sessionId \in win[w].replyCallbacks
                    THEN [cancelled EXCEPT ![w] = @ \cup {sessionId}]
                    ELSE cancelled
  /\ last' = Op("cancelRequestToPage", NoWin, <<>>, 0, NoRet, <<>>, <<>>)
  /\ UNCHANGED <<windows, nwin, native, mainWindow, quit, panel2windows,
                 panel2argv, invoked, issued>>

ReplyKeep(cbs, sessionId) == cbs

(* _reply: the callback table after a callback was found and invoked *)
ReplyRemove(cbs, sessionId) == cbs \ {sessionId}

(* ipcMain.on('editor:sendreq2page:reply') and _reply *)
IpcReply(sender, sessionId) ==
  /\ sender \in Senders
  /\ LET editorWin == Find(sender) IN
       IF editorWin = NoWin
         THEN /\ last' = Op("editor:sendreq2page:reply", NoWin, <<>>, 0,
                            NoRet, <<>>,
                            <<Ev("warn", "Can not find the window", NoWin, <<>>, 0)>>)
              /\ UNCHANGED <<win, invoked>>
       ELSE IF sessionId \in win[editorWin].replyCallbacks
         THEN /\ win' = [win EXCEPT ![editorWin].replyCallbacks =
                                       ReplyRemove(@, sessionId)]
              /\ invoked' = [invoked EXCEPT ![editorWin][sessionId] = @ + 1]
              /\ last' = Op("editor:sendreq2page:reply", editorWin, <<>>, sessionId,
                            NoRet, <<>>,
                            <<Ev("cb", "args", editorWin, <<>>, sessionId)>>)
         ELSE /\ last' = Op("editor:sendreq2page:reply", NoWin, <<>>, 0,
                            NoRet, <<>>, <<>>)
              /\ UNCHANGED <<win, invoked>>
  /\ UNCHANGED <<windows, nwin, native, mainWindow, quit, panel2windows,
                 panel2argv, issued, cancelled>>

WindowChannels ==
  {"window:query-layout", "window:save-layout", "window:focus", "window:load",
   "window:resize", "window:center"}

(* what a window handler does with the window it found *)
WindowIpcEvents(channel, editorWin) ==
  CASE channel = "window:query-layout" -> <<Ev("reply", "layout", editorWin, <<>>, 0)>>
    [] channel = "window:save-layout" ->
         <<Ev("commitWindowState", "", editorWin, <<>>, 0),
           Ev("saveWindowStates", "", NoWin, <<>>, 0)>>
    [] channel = "window:focus" -> <<Ev("focus", "", editorWin, <<>>, 0)>>
    [] channel = "window:load" -> <<Ev("load", "url", editorWin, <<>>, 0)>>
    [] channel = "window:resize" -> <<Ev("setSize", "", editorWin, <<>>, 0)>>
    [] OTHER -> <<Ev("center", "", editorWin, <<>>, 0)>>

(* ipcMain.on('window:query-layout' | 'window:save-layout' | 'window:focus' |
   'window:load' | 'window:resize' | 'window:center') *)
WindowIpc(sender, channel) ==
  /\ sender \in Senders
  /\ LET editorWin == Find(sender) IN
       IF editorWin = NoWin
         THEN last' = Op(channel, NoWin, <<>>, 0, NoRet, <<>>,
                         <<Ev("warn", "can not find the window", NoWin, <<>>, 0)>>
                         \o (IF channel = "window:query-layout"
                               THEN <<Ev("reply", "", NoWin, <<>>, 0)>> ELSE <<>>))
         ELSE last' = Op(channel, editorWin, <<>>, 0, NoRet, <<>>,
                         WindowIpcEvents(channel, editorWin))
  /\ UNCHANGED <<windows, win, nwin, native, mainWindow, quit, panel2windows,
                 panel2argv, invoked, issued, cancelled>>

----------------------------------------------------------------------------
(* Editor.Panel *)

(* String.prototype.split('.') *)
RECURSIVE SplitFrom(_, _, _)
SplitFrom(s, i, cur) ==
  IF i > Len(s) THEN <<cur>>
  ELSE IF s[i] = "." THEN <<cur>> \o SplitFrom(s, i + 1, <<>>)
  ELSE SplitFrom(s, i + 1, Append(cur, s[i]))

Split(s) == SplitFrom(s, 1, <<>>)

(* an array used as a property key: its elements joined by ',' *)
RECURSIVE ArrayKey(_)
ArrayKey(a) ==
  IF Len(a) = 0 THEN <<>>
  ELSE IF Len(a) = 1 THEN a[1]
  ELSE a[1] \o <<",">> \o ArrayKey(Tail(a))

(* Editor.Package.panelInfo(panelID): the panels the loaded packages declare,
   with their type; "none" when the panel is not declared *)
PanelInfo(panelID) ==
  CASE panelID = PAB -> "undefined"
    [] panelID = PBA -> "quick"
    [] OTHER -> "none"

DockKeep(p2w, panelID, w) == IF Has(p2w, panelID) THEN p2w ELSE p2w \cup {<<panelID, w>>}

(* _dock: _panel2windows[panelID] = win *)
Dock(p2w, panelID, w) == Put(p2w, panelID, w)

SaveLayoutNever(w, panelID) == <<>>

(* _saveLayout: the profile it writes *)
SaveLayout(w, panelID) ==
  IF ~IsMainWindow(w) THEN <<Ev("saveLayout", "layout", w, panelID, 0)>> ELSE <<>>

FoundNever(p2w, w) == FALSE

(* the loop of close: is another panel docked in the same window *)
Found(p2w, w) == \E e \in p2w : e[2] = w

(* nativeWin.close(): the native window is asked to close; its 'close'
   event follows *)
NativeClose(nat, w) ==
  IF nat[w] = "open" THEN [nat EXCEPT ![w] = "closeRequested"] ELSE nat

(* Editor.Panel.close(panelID) on st = [p2w, native, events]; key is the
   property key the argument is used as *)
Close(st, key) ==
  LET editorWin == Get(st.p2w, key) IN
    IF ~Truthy(editorWin) THEN st
    ELSE LET sent == SendToPage(editorWin, "panel:undock", key, 0) IN
      IF Threw(sent) THEN [st EXCEPT !.events = @ \o sent]
      ELSE LET p2w == Delete(st.p2w, key)
               closes == ~Found(p2w, editorWin) /\ ~IsMainWindow(editorWin)
           IN [p2w |-> p2w,
               native |-> IF closes THEN NativeClose(st.native, editorWin)
                          ELSE st.native,
               events |-> st.events \o sent \o SaveLayout(editorWin, key)
                          \o (IF closes THEN <<Ev("close", "", editorWin, <<>>, 0)>>
                              ELSE <<>>)]

RECURSIVE CloseEach(_, _)
CloseEach(st, keys) ==
  IF keys = <<>> THEN st ELSE CloseEach(Close(st, Head(keys)), Tail(keys))

(* findPanels(packageName), visiting the keys in the order ord *)
RECURSIVE FindPanels(_, _)
FindPanels(packageName, ord) ==
  IF Len(ord) = 0 THEN <<>>
  ELSE LET pair == Split(ord[1])
           rest == FindPanels(packageName, Tail(ord))
       IN IF Len(pair) # 2 THEN rest
          ELSE IF pair[1] = packageName THEN <<pair>> \o rest
          ELSE rest

(* findWindows(packageName), visiting the keys in the order ord *)
RECURSIVE FindWindowsFrom(_, _, _)
FindWindowsFrom(packageName, ord, wins) ==
  IF Len(ord) = 0 THEN wins
  ELSE LET pair == Split(ord[1])
           editorWin == Get(panel2windows, ord[1])
       IN IF Len(pair) # 2 THEN FindWindowsFrom(packageName, Tail(ord), wins)
          ELSE IF pair[2] = packageName /\ IndexOf(wins, editorWin, 1) = 0
            THEN FindWindowsFrom(packageName, Tail(ord), Append(wins, editorWin))
          ELSE FindWindowsFrom(packageName, Tail(ord), wins)

FindWindows(packageName, ord) == FindWindowsFrom(packageName, ord, <<>>)

FindWindowNone(panelID) == NoWin

(* findWindow(panelID) *)
FindWindow(panelID) == Get(panel2windows, panelID)

RunExistingStale(panelID, argv, editorWin) ==
  <<Ev("sendToPanel", "panel:run", NoWin, panelID, Get(panel2argv, panelID)),
    Ev("show", "", editorWin, <<>>, 0),
    Ev("focus", "", editorWin, <<>>, 0)>>

(* open, when the panel is docked in editorWin: the calls it makes *)
RunExisting(panelID, argv, editorWin) ==
  <<Ev("sendToPanel", "panel:run", NoWin, panelID, argv),
    Ev("show", "", editorWin, <<>>, 0),
    Ev("focus", "", editorWin, <<>>, 0)>>

OpenArgvFirst(panelInfo, p2a, panelID, argv) == Put(p2a, panelID, argv)

(* open: _panel2argv[panelID] = argv, which comes after the return for a panel
   whose info is not found *)
OpenArgv(panelInfo, p2a, panelID, argv) ==
  IF panelInfo = "none" THEN p2a ELSE Put(p2a, panelID, argv)

(* Editor.Panel.open(panelID, argv) *)
PanelOpen(panelID, argv) ==
  LET panelInfo == PanelInfo(panelID)
      editorWin == FindWindow(panelID)
  IN IF panelInfo = "none"
       THEN /\ last' = Op("panel:open", NoWin, panelID, argv, NoRet, <<>>,
                          <<Ev("error", "panel info not found", NoWin, panelID, 0)>>)
            /\ panel2argv' = OpenArgv(panelInfo, panel2argv, panelID, argv)
            /\ UNCHANGED <<windows, win, nwin, native, panel2windows>>
     ELSE IF Truthy(editorWin)
       THEN /\ panel2argv' = OpenArgv(panelInfo, panel2argv, panelID, argv)
            /\ last' = Op("panel:open", editorWin, panelID, argv, NoRet, <<>>,
                          RunExisting(panelID, argv, editorWin))
            /\ UNCHANGED <<windows, win, nwin, native, panel2windows>>
     ELSE /\ nwin < MaxWindows
          /\ LET id == nwin + 1 IN
               /\ nwin' = id
               /\ win' = [win EXCEPT ![id] = Construct(panelInfo, id)]
               /\ native' = [native EXCEPT ![id] = "open"]
               /\ windows' = AddWindow(windows, id)
               /\ panel2argv' = OpenArgv(panelInfo, panel2argv, panelID, argv)
               /\ panel2windows' = Dock(panel2windows, panelID, id)
               /\ last' = Op("panel:open", id, panelID, argv, NoRet, <<>>,
                             <<Ev("new", DefaultType(panelInfo), id, <<>>, 0),
                               Ev("load", "url", id, panelID, 0),
                               Ev("focus", "", id, <<>>, 0)>>)

(* parseInt of a manifest or profile value: a number, or undefined *)
ParseInt(v) == IF v = Undef THEN NaN ELSE v

IsNaN(v) == v = NaN

(* if ( layoutProfile.width ): undefined and 0 are falsy *)
TruthyNum(v) == v # Undef /\ v # 0

WindowOptionsKeepProfile(panelInfo, layoutProfile) ==
  LET w1 == IF TruthyNum(layoutProfile.width) THEN ParseInt(layoutProfile.width)
            ELSE ParseInt(panelInfo.width)
      h1 == IF TruthyNum(layoutProfile.height) THEN ParseInt(layoutProfile.height)
            ELSE ParseInt(panelInfo.height)
  IN [width |-> IF IsNaN(w1) THEN 400 ELSE w1,
      height |-> IF IsNaN(h1) THEN 400 ELSE h1,
      minWidth |-> IF IsNaN(ParseInt(panelInfo.minWidth)) THEN 200
                   ELSE ParseInt(panelInfo.minWidth),
      minHeight |-> IF IsNaN(ParseInt(panelInfo.minHeight)) THEN 200
                    ELSE ParseInt(panelInfo.minHeight),
      maxWidth |-> ParseInt(panelInfo.maxWidth),
      maxHeight |-> ParseInt(panelInfo.maxHeight),
      windowType |-> IF panelInfo.type = "undefined" THEN "dockable"
                     ELSE panelInfo.type]

(* open: the windowOptions it computes from the panel info and the layout
   profile of the panel *)
WindowOptions(panelInfo, layoutProfile) ==
  LET w0 == ParseInt(panelInfo.width)
      h0 == ParseInt(panelInfo.height)
      w1 == IF TruthyNum(layoutProfile.width) THEN ParseInt(layoutProfile.width)
            ELSE w0
      h1 == IF TruthyNum(layoutProfile.height) THEN ParseInt(layoutProfile.height)
            ELSE h0
      w2 == IF panelInfo.type = "fixed-size" THEN ParseInt(panelInfo.width) ELSE w1
      h2 == IF panelInfo.type = "fixed-size" THEN ParseInt(panelInfo.height) ELSE h1
  IN [width |-> IF IsNaN(w2) THEN 400 ELSE w2,
      height |-> IF IsNaN(h2) THEN 400 ELSE h2,
      minWidth |-> IF IsNaN(ParseInt(panelInfo.minWidth)) THEN 200
                   ELSE ParseInt(panelInfo.minWidth),
      minHeight |-> IF IsNaN(ParseInt(panelInfo.minHeight)) THEN 200
                    ELSE ParseInt(panelInfo.minHeight),
      maxWidth |-> ParseInt(panelInfo.maxWidth),
      maxHeight |-> ParseInt(panelInfo.maxHeight),
      windowType |-> IF panelInfo.type = "undefined" THEN "dockable"
                     ELSE panelInfo.type]

(* what open read: the panel info and the layout profile *)
ReadEvents(panelInfo, layoutProfile) ==
  <<Ev("panelInfo", panelInfo.type, NoWin, <<>>, 0),
    Ev("panelInfo", "width", NoWin, <<>>, panelInfo.width),
    Ev("panelInfo", "height", NoWin, <<>>, panelInfo.height),
    Ev("panelInfo", "min-width", NoWin, <<>>, panelInfo.minWidth),
    Ev("panelInfo", "min-height", NoWin, <<>>, panelInfo.minHeight),
    Ev("panelInfo", "max-width", NoWin, <<>>, panelInfo.maxWidth),
    Ev("panelInfo", "max-height", NoWin, <<>>, panelInfo.maxHeight),
    Ev("loadProfile", "width", NoWin, <<>>, layoutProfile.width),
    Ev("loadProfile", "height", NoWin, <<>>, layoutProfile.height)>>

(* new Editor.Window(windowName, windowOptions) and the calls on the new
   window that follow *)
CreateEvents(id, panelID, o) ==
  <<Ev("new", o.windowType, id, <<>>, 0),
    Ev("option", "width", id, <<>>, o.width),
    Ev("option", "height", id, <<>>, o.height),
    Ev("option", "minWidth", id, <<>>, o.minWidth),
    Ev("option", "minHeight", id, <<>>, o.minHeight),
    Ev("option", "maxWidth", id, <<>>, o.maxWidth),
    Ev("option", "maxHeight", id, <<>>, o.maxHeight),
    Ev("setContentSize", "width", id, <<>>, o.width),
    Ev("setContentSize", "height", id, <<>>, o.height),
    Ev("load", "url", id, panelID, 0),
    Ev("focus", "", id, <<>>, 0)>>

(* Editor.Panel.open(panelID, argv) where Editor.Package.panelInfo returns
   panelInfo and Editor.loadProfile returns layoutProfile *)
PanelOpenWith(panelID, argv, panelInfo, layoutProfile) ==
  /\ LET editorWin == FindWindow(panelID) IN
       IF Truthy(editorWin)
         THEN /\ last' = Op("panel:open", editorWin, panelID, argv, NoRet, <<>>,
                            RunExisting(panelID, argv, editorWin))
              /\ UNCHANGED <<windows, win, nwin, native, panel2windows>>
         ELSE /\ nwin < MaxWindows
              /\ LET id == nwin + 1
                     o == WindowOptions(panelInfo, layoutProfile)
                 IN /\ nwin' = id
                    /\ win' = [win EXCEPT ![id] = Construct(o.windowType, id)]
                    /\ native' = [native EXCEPT ![id] = "open"]
                    /\ windows' = AddWindow(windows, id)
                    /\ panel2windows' = Dock(panel2windows, panelID, id)
                    /\ last' = Op("panel:open", id, panelID, argv, NoRet, <<>>,
                                  ReadEvents(panelInfo, layoutProfile)
                                  \o CreateEvents(id, panelID, o))
  /\ panel2argv' = Put(panel2argv, panelID, argv)
  /\ UNCHANGED <<mainWindow, quit, invoked, issued, cancelled>>

PanelOpenOp(panelID, argv) ==
  /\ PanelOpen(panelID, argv)
  /\ UNCHANGED <<mainWindow, quit, invoked, issued, cancelled>>

ReadyArgvNone(p2a, panelID) == Undef

(* let argv = _panel2argv[panelID] *)
ReadyArgv(p2a, panelID) == Get(p2a, panelID)

(* ipcMain.on('panel:ready'), sent by the page of a window that was opened
   for a panel once the panel is loaded *)
PanelReady(panelID) ==
  /\ last' = Op("panel:ready", NoWin, panelID, 0, NoRet, <<>>,
                <<Ev("sendToPanel", "panel:run", NoWin, panelID,
                     ReadyArgv(panel2argv, panelID))>>)
  /\ UNCHANGED <<windows, win, nwin, native, mainWindow, quit, panel2windows,
                 panel2argv, invoked, issued, cancelled>>

(* ipcMain.on('panel:close'): Editor.Panel.close(panelID) *)
PanelClose(panelID) ==
  /\ LET st == Close([p2w |-> panel2windows, native |-> native, events |-> <<>>],
                     panelID)
     IN /\ panel2windows' = st.p2w
        /\ native' = st.native
        /\ last' = Op("panel:close", Get(panel2windows, panelID), panelID, 0,
                      NoRet, <<>>, st.events)
  /\ UNCHANGED <<windows, win, nwin, mainWindow, quit, panel2argv, invoked, issued, cancelled>>

(* ipcMain.on('panel:dock') *)
PanelDock(sender, panelID) ==
  /\ sender \in Senders
  /\ panel2windows' = Dock(panel2windows, panelID, Find(sender))
  /\ last' = Op("panel:dock", sender, panelID, Get(panel2windows, panelID),
                NoRet, <<>>, <<>>)
  /\ UNCHANGED <<windows, win, nwin, native, mainWindow, quit, panel2argv,
                 invoked, issued, cancelled>>

(* Editor.Panel.closeAll(packageName) *)
CloseAll(packageName) ==
  /\ LET ord == KeySeq(Keys(panel2windows))
           panelIDs == FindPanels(packageName, ord)
           keys == [i \in 1..Len(panelIDs) |-> ArrayKey(panelIDs[i])]
           st == CloseEach([p2w |-> panel2windows, native |-> native,
                            events |-> <<>>], keys)
     IN /\ panel2windows' = st.p2w
        /\ native' = st.native
        /\ last' = Op("closeAll", NoWin, packageName, Len(panelIDs), NoRet, <<>>,
                      st.events)
  /\ UNCHANGED <<windows, win, nwin, mainWindow, quit, panel2argv, invoked, issued, cancelled>>

(* a call of Editor.Panel.findWindows(packageName) *)
CallFindWindows(packageName) ==
  /\ last' = Op("findWindows", NoWin, packageName, 0, NoRet,
                FindWindows(packageName, KeySeq(Keys(panel2windows))), <<>>)
  /\ UNCHANGED <<windows, win, nwin, native, mainWindow, quit, panel2windows,
                 panel2argv, invoked, issued, cancelled>>

(* the list findPanels returns, each element written as the string it is
   when it is used as a panel identifier (a property key) *)
Returned(panelIDs) ==
  [i \in 1..Len(panelIDs) |-> Ev("returned", "", NoWin, ArrayKey(panelIDs[i]), i)]

(* a call of Editor.Panel.findPanels(packageName) *)
CallFindPanels(packageName) ==
  /\ LET panelIDs == FindPanels(packageName, KeySeq(Keys(panel2windows)))
     IN last' = Op("findPanels", NoWin, packageName, Len(panelIDs), NoRet, <<>>,
                   Returned(panelIDs))
  /\ UNCHANGED <<windows, win, nwin, native, mainWindow, quit, panel2windows,
                 panel2argv, invoked, issued, cancelled>>

----------------------------------------------------------------------------
(* native window events *)

(* Editor.Panel._onWindowClose: _saveLayout for each panel the window hosts *)
RECURSIVE OnWindowClose(_, _)
OnWindowClose(w, ord) ==
  IF Len(ord) = 0 THEN <<>>
  ELSE (IF Get(panel2windows, ord[1]) = w THEN SaveLayout(w, ord[1]) ELSE <<>>)
       \o OnWindowClose(w, Tail(ord))

OnWindowClosedAll(p2w, w) == {}

(* Editor.Panel._onWindowClosed: delete each panel the window hosts *)
OnWindowClosed(p2w, w) == {e \in p2w : e[2] # w}

PreventsCloseNever(windowType) == FALSE

(* the 'close' handler: if ( this.windowType === 'quick' ) *)
PreventsClose(windowType) == windowType = "quick"

(* nativeWin.on('close') *)
OnClose(w) ==
  /\ w \in Created
  /\ native[w] \in {"open", "closeRequested"}
  /\ LET quick == PreventsClose(win[w].windowType) IN
       /\ native' = [native EXCEPT ![w] = IF quick THEN "open" ELSE "closing"]
       /\ last' = Op("close", w, <<>>, 0, NoRet, <<>>,
                     (IF quick THEN <<Ev("preventDefault", "", w, <<>>, 0),
                                      Ev("hide", "", w, <<>>, 0)>>
                      ELSE <<>>)
                     \o OnWindowClose(w, KeySeq(Keys(panel2windows)))
                     \o <<Ev("commitWindowStates", "", NoWin, <<>>, 0),
                          Ev("saveWindowStates", "", NoWin, <<>>, 0)>>)
  /\ UNCHANGED <<windows, win, nwin, mainWindow, quit, panel2windows, panel2argv,
                 invoked, issued, cancelled>>

(* the loop over this._replyCallbacks of the 'closed' handler: cb() for each *)
Callbacks(w, sessionIds) ==
  [i \in 1..Len(sessionIds) |-> Ev("cb", "noargs", w, <<>>, sessionIds[i])]

ClosedEventsRemoveFirst(w, cbs, main) ==
  <<Ev("removeWindow", "", w, <<>>, 0)>>
  \o Callbacks(w, SortedSeq(cbs))
  \o (IF main THEN <<Ev("quit", "", w, <<>>, 0)>> ELSE <<>>)
  \o <<Ev("dispose", "", w, <<>>, 0)>>

(* the calls of the 'closed' handler after _onWindowClosed, in order *)
ClosedEvents(w, cbs, main) ==
  Callbacks(w, SortedSeq(cbs))
  \o <<Ev("removeWindow", "", w, <<>>, 0)>>
  \o (IF main THEN <<Ev("quit", "", w, <<>>, 0)>> ELSE <<>>)
  \o <<Ev("dispose", "", w, <<>>, 0)>>

CallbacksKept(cbs) == cbs

(* this._replyCallbacks = {} *)
CallbacksCleared(cbs) == {}

(* nativeWin.on('closed') *)
OnClosed(w) ==
  /\ w \in Created
  /\ native[w] = "closing"
  /\ LET cbs == win[w].replyCallbacks
         main == IsMainWindow(w)
         events == ClosedEvents(w, cbs, main)
     IN /\ panel2windows' = OnWindowClosed(panel2windows, w)
        /\ invoked' = [invoked EXCEPT ![w] =
                         [s \in SessionIds |->
                            @[s] + Cardinality({i \in DOMAIN events :
                                                  events[i].ev = "cb" /\ events[i].n = s})]]
        /\ win' = [win EXCEPT ![w].replyCallbacks = CallbacksCleared(@),
                              ![w].nativeWin = NoWin]
        /\ windows' = RemoveWindow(windows, w)
        /\ mainWindow' = IF main THEN NoWin ELSE mainWindow
        /\ quit' = IF main THEN quit + 1 ELSE quit
        /\ native' = [native EXCEPT ![w] = "destroyed"]
        /\ last' = Op("closed", w, <<>>,
                      Cardinality(panel2windows)
                        - Cardinality(OnWindowClosed(panel2windows, w)),
                      NoRet, <<>>, events)
  /\ UNCHANGED <<nwin, panel2argv, issued, cancelled>>

(* the 'closed' handler when one of the reply callbacks its loop invokes
   calls sendRequestToPage on the closing window: the new callback is stored
   under the next session id and the request is sent, nativeWin being
   dereferenced only at the end of the handler; a for-in loop may or may not
   visit a property added while it runs (visits); the table is replaced
   after the loop *)
OnClosedReentrant(w, visits) ==
  /\ w \in Created
  /\ native[w] = "closing"
  /\ win[w].replyCallbacks # {}
  /\ TotalSessions < MaxRequests
  /\ LET cbs == win[w].replyCallbacks
         main == IsMainWindow(w)
         sessionId == win[w].nextSessionId
         inner == SendToPage(w, "editor:sendreq2page", <<>>, sessionId)
                  \o (IF visits THEN Callbacks(w, <<sessionId>>) ELSE <<>>)
         events == inner \o ClosedEvents(w, cbs, main)
     IN /\ panel2windows' = OnWindowClosed(panel2windows, w)
        /\ invoked' = [invoked EXCEPT ![w] =
                         [s \in SessionIds |->
                            @[s] + Cardinality({i \in DOMAIN events :
                                                  events[i].ev = "cb" /\ events[i].n = s})]]
        /\ issued' = [issued EXCEPT ![w] = @ \cup {sessionId}]
        /\ win' = [win EXCEPT ![w].nextSessionId = NextSessionId(sessionId),
                              ![w].replyCallbacks =
                                 CallbacksCleared(@ \cup {sessionId}),
                              ![w].nativeWin = NoWin]
        /\ windows' = RemoveWindow(windows, w)
        /\ mainWindow' = IF main THEN NoWin ELSE mainWindow
        /\ quit' = IF main THEN quit + 1 ELSE quit
        /\ native' = [native EXCEPT ![w] = "destroyed"]
        /\ last' = Op("closed", w, <<>>,
                      Cardinality(panel2windows)
                        - Cardinality(OnWindowClosed(panel2windows, w)),
                      sessionId, <<>>, events)
  /\ UNCHANGED <<nwin, panel2argv, cancelled>>

(* EditorWindow.close(): this._loaded = false; this.nativeWin.close() *)
WindowClose(w) ==
  /\ w \in Created
  /\ IF win[w].nativeWin = NoWin
       THEN /\ last' = Op("window.close", w, <<>>, 0, NoRet, <<>>,
                          <<Ev("throw", "TypeError", w, <<>>, 0)>>)
            /\ UNCHANGED native
       ELSE /\ native' = NativeClose(native, w)
            /\ last' = Op("window.close", w, <<>>, 0, NoRet, <<>>,
                          <<Ev("close", "", w, <<>>, 0)>>)
  /\ UNCHANGED <<windows, win, nwin, mainWindow, quit, panel2windows,
                 panel2argv, invoked, issued, cancelled>>

----------------------------------------------------------------------------
(* The package registry, Editor.Package.  Its tests are part of this
   repository (src/unnamed/part_000) and its code is not, so it is modelled
   from its contract: load resolves the declared dependencies in post-order,
   siblings in declaration order, records the script modules a package
   causes to be cached, and broadcasts package:loaded; unload evicts the
   recorded modules, broadcasts package:unloaded and unloads a dependency
   that no loaded package declares any more. *)

(* the dependencies a descriptor declares, in declaration order *)
Deps(p) ==
  CASE p = "package-deps" -> <<"dep-01">>
    [] p = "dep-01" -> <<"dep-02">>
    [] p = "siblings" -> <<"dep-01", "dep-02", "simple">>
    [] p = "nested" -> <<"simple", "siblings">>
    [] p = "broken-dep" -> <<"dep-02", "main-js-broken">>
    [] OTHER -> <<>>

DescriptorParses(p) == p # "package-json-broken"

HostExists(p) == p # "host-not-exists"

MainThrows(p) == p = "main-js-broken"

(* the script modules the main script of a package requires, itself
   included; a package may require a script of a package it depends on and
   scripts of the framework *)
Requires(p) ==
  CASE p = "main-deps" ->
         {"main-deps/main.js", "main-deps/core/test.js",
          "main-deps/core/foo/bar.js", "main-deps/test.js"}
    [] p = "simple" -> {"simple/main.js", "editor/init.js"}
    [] p = "dep-02" -> {"dep-02/main.js", "dep-02/lib.js"}
    [] p = "dep-01" -> {"dep-01/main.js", "dep-02/lib.js"}
    [] OTHER -> {p \o "/main.js"}

Dependents(p, loaded) ==
  {q \in loaded : \E i \in DOMAIN Deps(q) : Deps(q)[i] = p}

RECURSIVE AllDeps(_)
AllDeps(p) ==
  LET direct == {Deps(p)[i] : i \in DOMAIN Deps(p)}
  IN direct \cup UNION {AllDeps(d) : d \in direct}

Broadcast(channel, name) == <<channel, name>>

(* before: the packages loaded when the operation was called; prev: the
   operation called before it, its package and what its callback got *)
Task(op, path, stack, queue, cb, err, before) ==
  [op |-> op, path |-> path, stack |-> stack, queue |-> queue, cb |-> cb,
   err |-> err, before |-> before,
   prev |-> <<pkgTask.op, pkgTask.path, pkgTask.cb>>]

Frame(p, i) == [pkg |-> p, next |-> i]

Top == pkgTask.stack[Len(pkgTask.stack)]

Pop(stack) == SubSeq(stack, 1, Len(stack) - 1)

(* Editor.Package.load(path, cb) *)
PackageLoad(path) ==
  /\ pkgTask.cb # "pending"
  /\ pkgTask' = Task("load", path, <<Frame(path, 0)>>, <<>>, "pending", "",
                     loadedPackages)
  /\ sentToWindows' = <<>>
  /\ UNCHANGED <<loadedPackages, requireCache, recordedModules>>

ManifestErrorNone(p) == ""

(* the error a load of package p stops with before its dependencies are
   loaded, "" if there is none *)
ManifestError(p) ==
  IF ~DescriptorParses(p) THEN "InvalidManifest"
  ELSE IF ~HostExists(p) THEN "MissingHost"
  ELSE ""

EnterFrameNoDeps(p) == Frame(p, Len(Deps(p)) + 1)

(* the dependencies of a package are loaded from the first declared one *)
EnterFrame(p) == Frame(p, 1)

(* a load reaches a package: loaded already, it is done; its descriptor is
   parsed and its hosts are looked up *)
LoadEnter ==
  /\ pkgTask.op = "load" /\ pkgTask.cb = "pending"
  /\ pkgTask.stack # <<>> /\ Top.next = 0
  /\ pkgTask' =
       IF Top.pkg \in loadedPackages
       THEN [pkgTask EXCEPT !.stack = Pop(@)]
       ELSE IF ManifestError(Top.pkg) # ""
       THEN [pkgTask EXCEPT !.stack = <<>>, !.err = ManifestError(Top.pkg)]
       ELSE [pkgTask EXCEPT !.stack = Append(Pop(@), EnterFrame(Top.pkg))]
  /\ UNCHANGED <<loadedPackages, requireCache, recordedModules,
                 sentToWindows>>

(* the next declared dependency of the package is loaded first *)
LoadDependency ==
  /\ pkgTask.op = "load" /\ pkgTask.cb = "pending"
  /\ pkgTask.stack # <<>> /\ Top.next \in DOMAIN Deps(Top.pkg)
  /\ pkgTask' =
       [pkgTask EXCEPT
          !.stack = Append(Pop(@), Frame(Top.pkg, Top.next + 1))
                      \o <<Frame(Deps(Top.pkg)[Top.next], 0)>>]
  /\ UNCHANGED <<loadedPackages, requireCache, recordedModules,
                 sentToWindows>>

IntroducedAll(p, cache) == Requires(p)

(* the modules a package causes to be cached *)
Introduced(p, cache) == Requires(p) \ cache

LoadedBroadcastNone(p) == <<>>

LoadedBroadcast(p) == <<Broadcast("package:loaded", p)>>

(* with every dependency loaded the main script runs, the modules it caches
   are recorded, the package is registered and package:loaded is broadcast *)
LoadMain ==
  /\ pkgTask.op = "load" /\ pkgTask.cb = "pending"
  /\ pkgTask.stack # <<>> /\ Top.next = Len(Deps(Top.pkg)) + 1
  /\ IF MainThrows(Top.pkg)
     THEN /\ pkgTask' = [pkgTask EXCEPT !.stack = <<>>,
                                        !.err = "EntryLoadError"]
          /\ UNCHANGED <<loadedPackages, requireCache, recordedModules,
                         sentToWindows>>
     ELSE /\ recordedModules' =
               [recordedModules EXCEPT
                  ![Top.pkg] = Introduced(Top.pkg, requireCache)]
          /\ requireCache' = requireCache \cup Requires(Top.pkg)
          /\ loadedPackages' = loadedPackages \cup {Top.pkg}
          /\ sentToWindows' = sentToWindows \o LoadedBroadcast(Top.pkg)
          /\ pkgTask' = [pkgTask EXCEPT !.stack = Pop(@)]

(* Editor.Package.unload(path, cb); a package is unloaded only after the
   packages that depend on it *)
PackageUnload(path) ==
  /\ pkgTask.cb # "pending"
  /\ Dependents(path, loadedPackages) = {}
  /\ pkgTask' = Task("unload", path, <<>>,
                     IF path \in loadedPackages THEN <<path>> ELSE <<>>,
                     "pending", "", loadedPackages)
  /\ sentToWindows' = <<>>
  /\ UNCHANGED <<loadedPackages, requireCache, recordedModules>>

(* the dependencies of p, in declaration order, that no package of loaded
   declares any more *)
Released(p, loaded) ==
  SelectSeq(Deps(p), LAMBDA d : d \in loaded /\ Dependents(d, loaded) = {})

Evicted(p, recorded) == recorded[p]

UnloadedBroadcast(p) == <<Broadcast("package:unloaded", p)>>

(* one package is unloaded: its recorded modules are evicted, it leaves the
   registry, package:unloaded is broadcast, and the dependencies it was the
   last to declare are unloaded next *)
UnloadStep ==
  /\ pkgTask.op = "unload" /\ pkgTask.cb = "pending"
  /\ pkgTask.queue # <<>>
  /\ LET p == Head(pkgTask.queue)
     IN /\ requireCache' = requireCache \ Evicted(p, recordedModules)
        /\ recordedModules' = [recordedModules EXCEPT ![p] = {}]
        /\ loadedPackages' = loadedPackages \ {p}
        /\ sentToWindows' = sentToWindows \o UnloadedBroadcast(p)
        /\ pkgTask' = [pkgTask EXCEPT
                         !.queue = Tail(@) \o Released(p, loadedPackages \ {p})]

(* the callback of the operation runs, with the error if there is one *)
PackageCallback ==
  /\ pkgTask.cb = "pending"
  /\ pkgTask.stack = <<>> /\ pkgTask.queue = <<>>
  /\ pkgTask' = [pkgTask EXCEPT !.cb = IF pkgTask.err = "" THEN "ok" ELSE "err"]
  /\ UNCHANGED <<loadedPackages, requireCache, recordedModules,
                 sentToWindows>>

----------------------------------------------------------------------------

(* the request/reply sessions of the windows, with no panel docked *)
NextReq ==
  \/ WindowOpen("undefined") /\ UNCHANGED extVars
  \/ \E w \in WinIds : SetMainWindow(w) /\ UNCHANGED extVars
  \/ \E w \in WinIds, c \in BOOLEAN, k \in {"none", "nofunc", "func"} :
       SendRequestToPage(w, c, k) /\ UNCHANGED extVars
  \/ \E w \in WinIds, s \in SessionIds : CancelRequestToPage(w, s)
       /\ UNCHANGED extVars
  \/ \E h \in WinIds \cup {NoWin}, s \in SessionIds : IpcReply(h, s)
       /\ UNCHANGED extVars
  \/ \E w \in WinIds : OnClose(w) /\ UNCHANGED extVars
  \/ \E w \in WinIds : OnClosed(w) /\ UNCHANGED extVars

SpecReq == Init /\ [][NextReq]_vars

(* opening, docking and closing two panels, one of them declared by no
   loaded package, with different arguments *)
NextOpen ==
  \/ \E t \in {"undefined", "quick"} : WindowOpen(t) /\ UNCHANGED extVars
  \/ \E w \in WinIds : SetMainWindow(w) /\ UNCHANGED extVars
  \/ \E p \in OpenPanelIDs, a \in Argv : PanelOpenOp(p, a) /\ UNCHANGED extVars
  \/ \E p \in OpenPanelIDs : PanelClose(p) /\ UNCHANGED extVars
  \/ \E h \in WinIds \cup {NoWin}, p \in OpenPanelIDs : PanelDock(h, p)
       /\ UNCHANGED extVars
  \/ \E w \in WinIds : OnClose(w) /\ UNCHANGED extVars
  \/ \E w \in WinIds : OnClosed(w) /\ UNCHANGED extVars

SpecOpen == Init /\ [][NextOpen]_vars

(* the panel dock table with the lookups by package name, with no request
   sent to a page *)
NextPanel ==
  \/ WindowOpen("undefined") /\ UNCHANGED extVars
  \/ \E w \in WinIds : SetMainWindow(w) /\ UNCHANGED extVars
  \/ \E p \in PanelIDs : PanelOpenOp(p, 1) /\ UNCHANGED extVars
  \/ \E p \in PanelIDs : PanelClose(p) /\ UNCHANGED extVars
  \/ \E h \in WinIds \cup {NoWin}, p \in PanelIDs : PanelDock(h, p)
       /\ UNCHANGED extVars
  \/ \E n \in PackageNames : CloseAll(n) /\ UNCHANGED extVars
  \/ \E n \in PackageNames : CallFindWindows(n) /\ UNCHANGED extVars
  \/ \E w \in WinIds : OnClose(w) /\ UNCHANGED extVars
  \/ \E w \in WinIds : OnClosed(w) /\ UNCHANGED extVars

SpecPanel == Init /\ [][NextPanel]_vars

(* the lookup of the docked panels of a package *)
NextFind ==
  \/ WindowOpen("undefined") /\ UNCHANGED extVars
  \/ \E p \in PanelIDs : PanelOpenOp(p, 1) /\ UNCHANGED extVars
  \/ \E h \in WinIds \cup {NoWin}, p \in PanelIDs : PanelDock(h, p)
       /\ UNCHANGED extVars
  \/ \E n \in PackageNames : CallFindPanels(n) /\ UNCHANGED extVars
  \/ \E w \in WinIds : OnClose(w) /\ UNCHANGED extVars
  \/ \E w \in WinIds : OnClosed(w) /\ UNCHANGED extVars

SpecFind == Init /\ [][NextFind]_vars

(* opening a panel with the window geometry of its manifest and profile *)
NextGeom ==
  \/ \E i \in PanelInfos, l \in LayoutProfiles : PanelOpenWith(PAB, 1, i, l)
       /\ UNCHANGED extVars
  \/ PanelClose(PAB) /\ UNCHANGED extVars
  \/ \E w \in WinIds : OnClose(w) /\ UNCHANGED extVars
  \/ \E w \in WinIds : OnClosed(w) /\ UNCHANGED extVars

SpecGeom == Init /\ [][NextGeom]_vars

(* windows of every kind, created and closed *)
NextKinds ==
  \/ \E t \in WindowTypes \cup {"undefined"} : WindowOpen(t)
       /\ UNCHANGED extVars
  \/ \E w \in WinIds : SetMainWindow(w) /\ UNCHANGED extVars
  \/ \E w \in WinIds : OnClose(w) /\ UNCHANGED extVars
  \/ \E w \in WinIds : OnClosed(w) /\ UNCHANGED extVars

SpecKinds == Init /\ [][NextKinds]_vars

(* the ipc handlers that resolve their sender to a window *)
NextIpc ==
  \/ WindowOpen("undefined") /\ UNCHANGED extVars
  \/ \E p \in {PAB} : PanelOpenOp(p, 1) /\ UNCHANGED extVars
  \/ \E w \in WinIds : SendRequestToPage(w, TRUE, "func") /\ UNCHANGED extVars
  \/ \E h \in WinIds \cup {NoWin}, s \in SessionIds : IpcReply(h, s)
       /\ UNCHANGED extVars
  \/ \E h \in WinIds \cup {NoWin}, c \in WindowChannels : WindowIpc(h, c)
       /\ UNCHANGED extVars
  \/ \E h \in WinIds \cup {NoWin}, p \in {PAB} : PanelDock(h, p)
       /\ UNCHANGED extVars
  \/ \E w \in WinIds : OnClose(w) /\ UNCHANGED extVars
  \/ \E w \in WinIds : OnClosed(w) /\ UNCHANGED extVars

SpecIpc == Init /\ [][NextIpc]_vars

(* messages and requests sent to windows, open or closed *)
NextSend ==
  \/ WindowOpen("undefined") /\ UNCHANGED extVars
  \/ \E p \in {PAB} : PanelOpenOp(p, 1) /\ UNCHANGED extVars
  \/ \E w \in WinIds : CallSendToPage(w) /\ UNCHANGED extVars
  \/ \E w \in WinIds : SendRequestToPage(w, TRUE, "func") /\ UNCHANGED extVars
  \/ \E w \in WinIds : OnClose(w) /\ UNCHANGED extVars
  \/ \E w \in WinIds : OnClosed(w) /\ UNCHANGED extVars

SpecSend == Init /\ [][NextSend]_vars

(* quick windows with docked panels and pending requests, asked to close *)
NextQuick ==
  \/ \E t \in {"undefined", "quick"} : WindowOpen(t) /\ UNCHANGED extVars
  \/ \E p \in {PAB, PBA} : PanelOpenOp(p, 1) /\ UNCHANGED extVars
  \/ \E p \in {PAB, PBA} : PanelClose(p) /\ UNCHANGED extVars
  \/ \E w \in WinIds : SendRequestToPage(w, TRUE, "func") /\ UNCHANGED extVars
  \/ \E w \in WinIds : OnClose(w) /\ UNCHANGED extVars
  \/ \E w \in WinIds : OnClosed(w) /\ UNCHANGED extVars

SpecQuick == Init /\ [][NextQuick]_vars

(* panels opened again and again, with other arguments, closed, and their
   windows closed by the user *)
NextRun ==
  \/ \E p \in {PAB, PBA}, a \in Argv : PanelOpenOp(p, a) /\ UNCHANGED extVars
  \/ \E p \in {PAB, PBA} : PanelClose(p) /\ UNCHANGED extVars
  \/ \E w \in WinIds : OnClose(w) /\ UNCHANGED extVars
  \/ \E w \in WinIds : OnClosed(w) /\ UNCHANGED extVars

SpecRun == Init /\ [][NextRun]_vars

(* panels opened, opened again with other arguments and closed, and their
   pages reporting ready at any time after the first open *)
NextReady ==
  \/ \E p \in OpenPanelIDs, a \in Argv : PanelOpenOp(p, a) /\ UNCHANGED extVars
  \/ \E p \in OpenPanelIDs : PanelClose(p) /\ UNCHANGED extVars
  \/ \E p \in OpenPanelIDs : PanelReady(p) /\ UNCHANGED extVars
  \/ \E w \in WinIds : OnClose(w) /\ UNCHANGED extVars
  \/ \E w \in WinIds : OnClosed(w) /\ UNCHANGED extVars

SpecReady == Init /\ [][NextReady]_vars

(* panels docked by open or by their pages, docked to no window by a
   sender that resolves to none, and closed, also when they are not docked *)
NextUndock ==
  \/ WindowOpen("undefined") /\ UNCHANGED extVars
  \/ \E w \in WinIds : SetMainWindow(w) /\ UNCHANGED extVars
  \/ \E p \in {PAB, PBA} : PanelOpenOp(p, 1) /\ UNCHANGED extVars
  \/ \E h \in WinIds \cup {NoWin}, p \in {PAB, PBA} : PanelDock(h, p)
       /\ UNCHANGED extVars
  \/ \E p \in {PAB, PBA} : PanelClose(p) /\ UNCHANGED extVars
  \/ \E w \in WinIds : OnClose(w) /\ UNCHANGED extVars
  \/ \E w \in WinIds : OnClosed(w) /\ UNCHANGED extVars

SpecUndock == Init /\ [][NextUndock]_vars

(* windows that close and windows that hide, with pending requests, closed
   with close() or by the user; the native window delivers 'close' once a close is requested
   and 'closed' once a close is not prevented *)
NextClose ==
  \/ \E t \in {"float", "quick"} : WindowOpen(t) /\ UNCHANGED extVars
  \/ \E w \in WinIds : SendRequestToPage(w, TRUE, "func") /\ UNCHANGED extVars
  \/ \E w \in WinIds : WindowClose(w) /\ UNCHANGED extVars
  \/ \E w \in WinIds : OnClose(w) /\ UNCHANGED extVars
  \/ \E w \in WinIds : OnClosed(w) /\ UNCHANGED extVars
  \/ \E w \in WinIds, v \in BOOLEAN : OnClosedReentrant(w, v)
       /\ UNCHANGED extVars

CloseDelivered(w) ==
  /\ native[w] = "closeRequested"
  /\ OnClose(w) /\ UNCHANGED extVars

ClosedDelivered(w) == OnClosed(w) /\ UNCHANGED extVars

SpecClose ==
  /\ Init /\ [][NextClose]_vars
  /\ \A w \in WinIds : WF_vars(CloseDelivered(w)) /\ WF_vars(ClosedDelivered(w))

(* windows opened and closed, one of them made the main window, with
   requests pending when the closed event arrives *)
NextMain ==
  \/ \E t \in {"undefined", "quick"} : WindowOpen(t) /\ UNCHANGED extVars
  \/ \E w \in WinIds : SetMainWindow(w) /\ UNCHANGED extVars
  \/ \E w \in WinIds : SendRequestToPage(w, TRUE, "func") /\ UNCHANGED extVars
  \/ \E w \in WinIds : WindowClose(w) /\ UNCHANGED extVars
  \/ \E w \in WinIds : OnClose(w) /\ UNCHANGED extVars
  \/ \E w \in WinIds : OnClosed(w) /\ UNCHANGED extVars
  \/ \E w \in WinIds, v \in BOOLEAN : OnClosedReentrant(w, v)
       /\ UNCHANGED extVars

SpecMain == Init /\ [][NextMain]_vars

(* window layouts: commitWindowState, commitWindowStates, saveWindowStates *)

(* the name and the save option of the windows opened: two names, one of
   them with either option, so that windows share a name *)
NamedOptions == {<<"main", TRUE>>, <<"aux", TRUE>>, <<"aux", FALSE>>}

(* nativeWin.getBounds(): 0 is a width or height the code calls invalid *)
Bounds == {[width |-> 0, height |-> 0], [width |-> 400, height |-> 300]}

(* the layoutInfo a page sends with window:save-layout; Undef: none *)
LayoutInfos == {Undef, 1}

(* the value of a property the table does not have: undefined *)
NoInfo == [width |-> Undef, height |-> Undef, layout |-> Undef]

(* _windowLayouts[name] *)
LayoutOf(layouts, name) == IF Has(layouts, name) THEN Get(layouts, name) ELSE NoInfo

(* if ( !winBounds.width ) winBounds.width = 800, and the same for the height *)
ValidBounds(b) ==
  [width |-> IF b.width = 0 THEN 800 ELSE b.width,
   height |-> IF b.height = 0 THEN 600 ELSE b.height]

(* commitWindowState(layoutInfo) of the window called name: the table after it *)
CommitWindowState(layouts, name, save, b, layoutInfo) ==
  IF ~save THEN layouts
  ELSE Put(layouts, name,
           [width |-> ValidBounds(b).width, height |-> ValidBounds(b).height,
            layout |-> IF layoutInfo # Undef THEN layoutInfo
                       ELSE LayoutOf(layouts, name).layout])

(* commitWindowStates(): commitWindowState() of each window of the list ws,
   bounds[w] being what getBounds returns for window w *)
RECURSIVE CommitWindowStates(_, _, _)
CommitWindowStates(layouts, ws, bounds) ==
  IF ws = <<>> THEN layouts
  ELSE CommitWindowStates(
         CommitWindowState(layouts, winName[Head(ws)], winSave[Head(ws)],
                           bounds[Head(ws)], Undef),
         Tail(ws), bounds)

(* the two early returns of saveWindowStates *)
Persists(mode, main) == mode # "test" /\ main # NoWin

FreshProfileKept(old) == old

(* profile.windows = {} *)
FreshProfile(old) == {}

(* the loop of saveWindowStates: profile.windows[name] = _windowLayouts[name] *)
RECURSIVE ProfileWindows(_, _, _)
ProfileWindows(pw, ws, layouts) ==
  IF ws = <<>> THEN pw
  ELSE ProfileWindows(Put(pw, winName[Head(ws)], LayoutOf(layouts, winName[Head(ws)])),
                      Tail(ws), layouts)

(* saveWindowStates(): profile.windows of the saved profile after it *)
SaveWindowStates(saved, ws, layouts) ==
  IF Persists(runMode, mainWindow)
    THEN ProfileWindows(FreshProfile(saved), ws, layouts)
    ELSE saved

(* ipcMain.on('window:open') with the name and the save option of the caller *)
WindowOpenNamed(name, save) ==
  /\ WindowOpen("undefined")
  /\ winName' = [winName EXCEPT ![nwin + 1] = name]
  /\ winSave' = [winSave EXCEPT ![nwin + 1] = save]
  /\ UNCHANGED <<windowLayouts, profileWindows, runMode>>

(* ipcMain.on('window:save-layout'): commitWindowState(layoutInfo) of the
   sender's window, then saveWindowStates() *)
WindowSaveLayout(sender, b, layoutInfo) ==
  /\ WindowIpc(sender, "window:save-layout")
  /\ LET editorWin == Find(sender) IN
       IF editorWin = NoWin
         THEN UNCHANGED <<windowLayouts, profileWindows>>
         ELSE LET layouts == CommitWindowState(windowLayouts, winName[editorWin],
                                               winSave[editorWin], b, layoutInfo)
              IN /\ windowLayouts' = layouts
                 /\ profileWindows' = SaveWindowStates(profileWindows, windows, layouts)
  /\ UNCHANGED <<winName, winSave, runMode>>

(* nativeWin.on('close') with what its calls of commitWindowStates() and
   saveWindowStates() do *)
OnCloseSaving(w, bounds) ==
  /\ OnClose(w)
  /\ LET layouts == CommitWindowStates(windowLayouts, windows, bounds) IN
       /\ windowLayouts' = layouts
       /\ profileWindows' = SaveWindowStates(profileWindows, windows, layouts)
  /\ UNCHANGED <<winName, winSave, runMode>>

NextLayout ==
  \/ \E o \in NamedOptions :
       WindowOpenNamed(o[1], o[2]) /\ UNCHANGED pkgVars
  \/ \E w \in WinIds : SetMainWindow(w) /\ UNCHANGED extVars
  \/ \E sender \in WinIds \cup {NoWin}, b \in Bounds, layoutInfo \in LayoutInfos :
       WindowSaveLayout(sender, b, layoutInfo) /\ UNCHANGED pkgVars
  \/ \E w \in WinIds, bounds \in [WinIds -> Bounds] :
       OnCloseSaving(w, bounds) /\ UNCHANGED pkgVars
  \/ \E w \in WinIds : OnClosed(w) /\ UNCHANGED extVars

SpecLayout == InitLayout /\ [][NextLayout]_vars

(* packages loaded and unloaded, one operation at a time *)
NextPkg ==
  \/ \E p \in Packages : PackageLoad(p) /\ UNCHANGED <<winVars, layoutVars>>
  \/ LoadEnter /\ UNCHANGED <<winVars, layoutVars>>
  \/ LoadDependency /\ UNCHANGED <<winVars, layoutVars>>
  \/ LoadMain /\ UNCHANGED <<winVars, layoutVars>>
  \/ \E p \in Packages : PackageUnload(p) /\ UNCHANGED <<winVars, layoutVars>>
  \/ UnloadStep /\ UNCHANGED <<winVars, layoutVars>>
  \/ PackageCallback /\ UNCHANGED <<winVars, layoutVars>>

SpecPkg == Init /\ [][NextPkg]_vars

----------------------------------------------------------------------------
(* what the calls of an operation say *)

Range(f) == {f[i] : i \in DOMAIN f}

(* the sessions of window w whose reply callback the calls invoke *)
CbSessions(events, w) ==
  {events[i].n : i \in {j \in DOMAIN events : events[j].ev = "cb" /\ events[j].w = w}}

(* how often the calls invoke the reply callback of session s of window w *)
CbCount(events, w, s) ==
  Cardinality({i \in DOMAIN events :
                 events[i].ev = "cb" /\ events[i].w = w /\ events[i].n = s})

HasEv(events, ev) == \E i \in DOMAIN events : events[i].ev = ev

ArgKinds == {"none", "nofunc", "func"}

----------------------------------------------------------------------------
(* C1: for every window, each session id a successful sendRequestToPage
   returns is greater than every id an earlier call on that window returned,
   whatever happened in between and on other windows. *)
C1_SessionIdsIncrease ==
  [][(last'.op = "sendRequestToPage" /\ last'.ret # NoRet /\ last'.ret # NullRet) =>
       \A w \in WinIds :
         SendRequestToPage(w, TRUE, "func") =>
           /\ last'.ret >= 0
           /\ \A j \in issued[w] : j < last'.ret]_vars

C1_Witness ==
  \E w \in WinIds :
    /\ last.op = "sendRequestToPage" /\ last.w = w /\ last.ret = 1
    /\ invoked[w][0] = 1
    /\ issued[w] = {0, 1}

(* C2: when the 'closed' event of a window is handled, each reply callback
   pending on it is invoked once, with no arguments, before the window is
   removed from the window list, and afterwards its callback table is empty. *)
C2_ClosedInvokesPending ==
  [][last'.op = "closed" =>
       \A w \in WinIds :
         OnClosed(w) =>
           LET ev == last'.events
               rm == {i \in DOMAIN ev : ev[i].ev = "removeWindow" /\ ev[i].w = w}
           IN /\ Cardinality(rm) = 1
              /\ w \in Range(windows) /\ w \notin Range(windows')
              /\ CbSessions(ev, w) = win[w].replyCallbacks
              /\ \A i \in DOMAIN ev :
                   ev[i].ev = "cb" =>
                     /\ ev[i].ch = "noargs"
                     /\ CbCount(ev, w, ev[i].n) = 1
                     /\ \A r \in rm : i < r
              /\ win'[w].replyCallbacks = {}]_vars

C2_Witness ==
  /\ last.op = "closed"
  /\ Cardinality(CbSessions(last.events, last.w)) = 2
  /\ win[last.w].replyCallbacks = {}
  /\ last.w \notin Range(windows)

(* C3: no reply callback is invoked more than once, by replies and window
   close together. *)
C3_InvokedAtMostOnce ==
  \A w \in WinIds, s \in SessionIds : invoked[w][s] <= 1

C3_Witness ==
  /\ last.op = "closed"
  /\ invoked[last.w][0] = 1
  /\ 0 \notin cancelled[last.w]
  /\ CbSessions(last.events, last.w) = {1}

(* C4: once cancelRequestToPage(id) was called on a window for a pending id,
   the callback registered under id is not invoked by any later step, and the
   call itself removes id alone from that window's table and invokes nothing. *)
C4_CancelledNeverInvoked ==
  [][/\ invoked' # invoked =>
          \A w \in WinIds : \A s \in cancelled[w] : invoked'[w][s] = invoked[w][s]
     /\ last'.op = "cancelRequestToPage" =>
          \A w \in WinIds, s \in SessionIds :
            CancelRequestToPage(w, s) =>
              /\ win'[w].replyCallbacks = win[w].replyCallbacks \ {s}
              /\ s \in win[w].replyCallbacks => s \in cancelled'[w]
              /\ \A v \in WinIds \ {w} : win'[v] = win[v]
              /\ invoked' = invoked
              /\ last'.events = <<>>]_vars

C4_Witness ==
  /\ last.op = "closed"
  /\ 0 \in cancelled[last.w]
  /\ invoked[last.w][0] = 0
  /\ invoked[last.w][1] = 1

(* C5: sendRequestToPage with a channel that is no string, with no further
   argument, or with a last argument that is no function returns null, sends
   nothing to the page and leaves every window as it was. *)
C5_InvalidRequestNoEffect ==
  [][last'.op = "sendRequestToPage" =>
       \A w \in WinIds, c \in BOOLEAN, k \in ArgKinds :
         ((~c \/ k # "func") /\ SendRequestToPage(w, c, k))
           => /\ last'.ret = NullRet
              /\ ~HasEv(last'.events, "send")
              /\ UNCHANGED <<windows, win, nwin, native, mainWindow, quit,
                             panel2windows, panel2argv, invoked, issued, cancelled>>]_vars

C5_Witness ==
  /\ last.op = "sendRequestToPage"
  /\ last.ret = NullRet
  /\ last.events[1].ch = "The last argument must be function"
  /\ \E w \in WinIds : win[w].nextSessionId = 1 /\ win[w].replyCallbacks = {0}

(* the windows that host a panel in the table *)
Owners(p2w, panelID) == {e[2] : e \in {x \in p2w : x[1] = panelID}}

(* C6: every panel identifier has at most one owner, and right after a dock
   request for p from the page of a registered window w the owner of p is w,
   whatever it was, the other panels keeping their owners. *)
C6_OneOwnerLastWriterWins ==
  [][/\ panel2windows' # panel2windows =>
          \A p \in AllPanelIDs : Cardinality(Owners(panel2windows', p)) <= 1
     /\ last'.op = "panel:dock" =>
          \A h \in WinIds, p \in AllPanelIDs :
            (PanelDock(h, p) /\ Find(h) # NoWin) =>
              /\ Owners(panel2windows', p) = {Find(h)}
              /\ \A q \in AllPanelIDs \ {p} :
                   Owners(panel2windows', q) = Owners(panel2windows, q)]_vars

C6_Witness ==
  /\ last.op = "panel:dock"
  /\ Truthy(last.n) /\ last.n # last.w
  /\ Find(last.w) = last.w
  /\ Owners(panel2windows, last.p) = {last.w}

(* C7 as stated: opening a panel that is docked in a window creates no
   window, leaves the table unchanged, sends panel:run with the new argv and
   shows and focuses the hosting window. *)
C7_Original ==
  [][last'.op = "panel:open" => \A p \in AllPanelIDs, a \in Argv :
       (PanelOpenOp(p, a) /\ Truthy(FindWindow(p))) =>
         /\ nwin' = nwin /\ windows' = windows /\ native' = native
         /\ panel2windows' = panel2windows
         /\ last'.events =
              <<Ev("sendToPanel", "panel:run", NoWin, p, a),
                Ev("show", "", FindWindow(p), <<>>, 0),
                Ev("focus", "", FindWindow(p), <<>>, 0)>>]_vars

(* C7, amended: the same for a docked panel whose panel info is found. *)
C7_OpenDockedRunsExisting ==
  [][last'.op = "panel:open" => \A p \in AllPanelIDs, a \in Argv :
       (PanelOpenOp(p, a) /\ Truthy(FindWindow(p)) /\ PanelInfo(p) # "none") =>
         /\ nwin' = nwin /\ windows' = windows /\ native' = native
         /\ panel2windows' = panel2windows
         /\ last'.events =
              <<Ev("sendToPanel", "panel:run", NoWin, p, a),
                Ev("show", "", FindWindow(p), <<>>, 0),
                Ev("focus", "", FindWindow(p), <<>>, 0)>>]_vars

C7_Witness ==
  /\ last.op = "panel:open"
  /\ Len(last.events) = 3
  /\ last.events[1].ev = "sendToPanel" /\ last.events[1].n = 2
  /\ last.events[3].ev = "focus" /\ last.events[3].w = FindWindow(last.p)
  /\ nwin = 1

(* C8: Panel.close of a docked panel asks the hosting window to close exactly
   when no other panel is docked in that window and it is not the main
   window; otherwise the window is left as it is. *)
C8_CloseLastPanelClosesWindow ==
  [][last'.op = "panel:close" => \A p \in AllPanelIDs :
       (PanelClose(p) /\ Truthy(FindWindow(p))) =>
         LET w == FindWindow(p)
             sibling == \E q \in AllPanelIDs \ {p} : w \in Owners(panel2windows, q)
             asked == \E i \in DOMAIN last'.events :
                        last'.events[i].ev = "close" /\ last'.events[i].w = w
         IN /\ Owners(panel2windows', p) = {}
            /\ (~sibling /\ mainWindow # w) =>
                 (asked /\ native'[w] # "open")
            /\ (sibling \/ mainWindow = w) =>
                 (~asked /\ native' = native)]_vars

C8_Witness ==
  /\ last.op = "panel:close"
  /\ HasEv(last.events, "close")
  /\ native[last.w] = "closeRequested"
  /\ mainWindow \notin {NoWin, last.w}
  /\ \E q \in AllPanelIDs : Owners(panel2windows, q) = {mainWindow}

(* C9: when closeAll(packageName) returns, no identifier whose package part
   is packageName is left in the table, and the panels of other packages are
   docked as before. *)
C9_CloseAllClosesPackage ==
  [][last'.op = "closeAll" => \A n \in PackageNames :
       CloseAll(n) =>
         /\ \A p \in PanelIDs :
              (Len(Split(p)) = 2 /\ Split(p)[1] = n) => ~Has(panel2windows', p)
         /\ \A p \in PanelIDs :
              ~(Len(Split(p)) = 2 /\ Split(p)[1] = n) =>
                Owners(panel2windows', p) = Owners(panel2windows, p)]_vars

(* C10: findWindows(packageName) returns, each once, exactly the windows that
   host a docked panel <package>.<panel> whose package is packageName. *)
C10_FindWindowsByPackage ==
  last.op = "findWindows" =>
    /\ Range(last.retWins) =
         {e[2] : e \in {x \in panel2windows :
                          Len(Split(x[1])) = 2 /\ Split(x[1])[1] = last.p}}
    /\ \A i \in DOMAIN last.retWins, j \in DOMAIN last.retWins :
         last.retWins[i] = last.retWins[j] => i = j

(* C11: findPanels(packageName) returns the identifiers of exactly the docked
   panels whose package part is packageName, and findWindow of each returned
   identifier is the window that hosts the panel. *)
C11_FindPanelsReturnsIds ==
  last.op = "findPanels" =>
    LET ret == {last.events[i].p : i \in DOMAIN last.events}
    IN /\ ret = {k \in Keys(panel2windows) :
                   Len(Split(k)) = 2 /\ Split(k)[1] = last.p}
       /\ \A id \in ret : Truthy(FindWindow(id))

(* C12: when the 'closed' event of window w is handled, every panel that w
   owned is gone from the table and every other entry is as it was. *)
C12_ClosedRemovesOwnPanels ==
  [][last'.op = "closed" => \A w \in WinIds :
       OnClosed(w) =>
         /\ \A p \in AllPanelIDs :
              IF Owners(panel2windows, p) = {w}
                THEN ~Has(panel2windows', p)
                ELSE Owners(panel2windows', p) = Owners(panel2windows, p)
         /\ panel2windows' \subseteq panel2windows]_vars

C12_Witness ==
  /\ last.op = "closed"
  /\ last.n >= 1
  /\ \E q \in AllPanelIDs, v \in WinIds :
       v # last.w /\ Owners(panel2windows, q) = {v}
  /\ \A e \in panel2windows : e[2] # last.w

(* the calls write the position and size of window w to the layout profile
   of panel p and save it *)
SavesLayout(events, w, p) ==
  \E i \in DOMAIN events :
    events[i].ev = "saveLayout" /\ events[i].w = w /\ events[i].p = p

(* C13 as stated: Panel.close of a docked panel, and the 'close' event of a
   window for each panel it hosts, write the window's position and size to
   the panel's layout profile, whichever window hosts the panel. *)
C13_Original ==
  [][/\ last'.op = "panel:close" => \A p \in AllPanelIDs :
          (PanelClose(p) /\ Truthy(FindWindow(p))) =>
            SavesLayout(last'.events, FindWindow(p), p)
     /\ last'.op = "close" => \A w \in WinIds :
          OnClose(w) =>
            \A p \in AllPanelIDs :
              Owners(panel2windows, p) = {w} => SavesLayout(last'.events, w, p)]_vars

(* C13, amended: the same when the hosting window is not the main window;
   for the main window no layout profile is written. *)
C13_SavesLayoutUnlessMain ==
  [][/\ last'.op = "panel:close" => \A p \in AllPanelIDs :
          (PanelClose(p) /\ Truthy(FindWindow(p))) =>
            (SavesLayout(last'.events, FindWindow(p), p)
               <=> ~IsMainWindow(FindWindow(p)))
     /\ last'.op = "close" => \A w \in WinIds :
          OnClose(w) =>
            \A p \in AllPanelIDs :
              Owners(panel2windows, p) = {w} =>
                (SavesLayout(last'.events, w, p) <=> ~IsMainWindow(w))]_vars

C13_Witness ==
  /\ last.op = "close"
  /\ mainWindow # last.w
  /\ \E p \in AllPanelIDs, q \in AllPanelIDs :
       /\ p # q
       /\ Owners(panel2windows, p) = {last.w}
       /\ Owners(panel2windows, q) = {last.w}
       /\ SavesLayout(last.events, last.w, p)
       /\ SavesLayout(last.events, last.w, q)

(* C14: open(panelID, argv) for a panel whose info is not found logs an error
   and does nothing else: no window is created and the dock table and the
   cached arguments are as they were. *)
C14_OpenUnknownPanelNoEffect ==
  [][last'.op = "panel:open" => \A p \in AllPanelIDs, a \in Argv :
       (PanelOpenOp(p, a) /\ PanelInfo(p) = "none") =>
         /\ Len(last'.events) = 1 /\ last'.events[1].ev = "error"
         /\ nwin' = nwin /\ windows' = windows /\ win' = win /\ native' = native
         /\ panel2windows' = panel2windows
         /\ panel2argv' = panel2argv]_vars

C14_Witness ==
  /\ last.op = "panel:open" /\ last.p = PCD
  /\ last.events[1].ev = "error"
  /\ Truthy(FindWindow(PCD))
  /\ ~Has(panel2argv, PCD)
  /\ Has(panel2argv, PAB)

(* C15: the window list holds exactly the windows that were constructed and
   whose 'closed' event has not been handled, each of them once. *)
C15_WindowListExact ==
  /\ Range(windows) = {w \in Created : native[w] # "destroyed"}
  /\ Len(windows) = Cardinality(Range(windows))

C15_Witness ==
  /\ last.op = "closed" /\ last.w = 1
  /\ nwin = 2
  /\ windows = <<2>>
  /\ win[2].windowType = "quick"

(* C16: the 'close' event of a quick window is prevented and the window is
   hidden; it stays open and in the window list, its panels stay docked and
   its pending reply callbacks stay pending, none invoked.  A quick window is
   never closing or destroyed. *)
C16_QuickNeverDestroyed ==
  [][/\ \A w \in WinIds :
          (w <= nwin' /\ win'[w].windowType = "quick") =>
            native'[w] \in {"open", "closeRequested"}
     /\ last'.op = "close" => \A w \in WinIds :
          (OnClose(w) /\ win[w].windowType = "quick") =>
            /\ \E i \in DOMAIN last'.events :
                 last'.events[i].ev = "preventDefault" /\ last'.events[i].w = w
            /\ \E i \in DOMAIN last'.events :
                 last'.events[i].ev = "hide" /\ last'.events[i].w = w
            /\ native'[w] = "open"
            /\ windows' = windows /\ IndexOf(windows', w, 1) # 0
            /\ panel2windows' = panel2windows
            /\ win' = win /\ invoked' = invoked
            /\ ~HasEv(last'.events, "cb")]_vars

C16_Witness ==
  /\ last.op = "close"
  /\ win[last.w].windowType = "quick"
  /\ HasEv(last.events, "hide")
  /\ win[last.w].replyCallbacks # {}
  /\ Owners(panel2windows, PBA) = {last.w}
  /\ native[last.w] = "open"

(* C17: sendToPage and sendRequestToPage on a window whose 'closed' event was
   handled do not throw: they log a message, send nothing, and leave the
   window list, the dock table and the callback table of the window as they
   were. *)
C17_SendToClosedSilent ==
  [][last'.op \in {"sendToPage", "sendRequestToPage"} => \A w \in WinIds :
       ((CallSendToPage(w) \/ SendRequestToPage(w, TRUE, "func"))
          /\ native[w] = "destroyed") =>
         /\ ~Threw(last'.events)
         /\ HasEv(last'.events, "error")
         /\ ~HasEv(last'.events, "send")
         /\ windows' = windows
         /\ panel2windows' = panel2windows
         /\ win'[w].replyCallbacks = win[w].replyCallbacks]_vars

(* C18: a handler that resolves its sender to a window (the reply handler,
   the six window handlers, panel:dock) changes neither the window list, nor
   a callback table, nor the dock table when the sender is no registered
   window. *)
C18_UnknownSenderNoOp ==
  [][\A h \in WinIds \cup {NoWin} :
       (/\ Find(h) = NoWin
        /\ \/ \E s \in SessionIds : IpcReply(h, s)
           \/ \E c \in WindowChannels : WindowIpc(h, c)
           \/ \E p \in AllPanelIDs : PanelDock(h, p)) =>
         /\ windows' = windows
         /\ win' = win
         /\ panel2windows' = panel2windows]_vars

(* C19: a window is created with the defaults of its kind: dockable is
   resizable and not always on top, float resizable and always on top,
   fixed-size not resizable and always on top, quick resizable, always on top
   and hidden on blur; no other kind is hidden on blur; a window created with
   no kind is dockable. *)
C19_KindDefaults ==
  [][last'.op = "window:open" => \A t \in WindowTypes \cup {"undefined"} :
       WindowOpen(t) =>
         LET o == win'[nwin'] IN
           /\ nwin' = nwin + 1
           /\ o.windowType = (IF t = "undefined" THEN "dockable" ELSE t)
           /\ o.windowType = "dockable" =>
                (o.resizable = "true" /\ o.alwaysOnTop = "false")
           /\ o.windowType = "float" =>
                (o.resizable = "true" /\ o.alwaysOnTop = "true")
           /\ o.windowType = "fixed-size" =>
                (o.resizable = "false" /\ o.alwaysOnTop = "true")
           /\ o.windowType = "quick" =>
                (o.resizable = "true" /\ o.alwaysOnTop = "true")
           /\ o.hideWhenBlur <=> (o.windowType = "quick")]_vars

C19_Witness ==
  /\ last.op = "window:open"
  /\ nwin = 2
  /\ win[1].windowType = "fixed-size" /\ win[1].resizable = "false"
  /\ win[2].windowType = "quick" /\ win[2].hideWhenBlur

(* the number an operation read or passed under the name ch *)
EvN(events, ev, ch) ==
  (CHOOSE e \in Range(events) : e.ev = ev /\ e.ch = ch).n

(* open created a window for a panel whose manifest says fixed-size *)
OpenedFixedSize ==
  /\ last.op = "panel:open"
  /\ HasEv(last.events, "setContentSize")
  /\ last.events[1].ev = "panelInfo" /\ last.events[1].ch = "fixed-size"

(* C20 as stated: the window open creates for a fixed-size panel has a width
   within the min-width..max-width and a height within the
   min-height..max-height the manifest declares, whatever width and height
   the manifest and the layout profile give. *)
C20_Original ==
  OpenedFixedSize =>
    LET ev == last.events
        width == EvN(ev, "setContentSize", "width")
        height == EvN(ev, "setContentSize", "height")
    IN /\ width = EvN(ev, "option", "width")
       /\ height = EvN(ev, "option", "height")
       /\ EvN(ev, "panelInfo", "min-width") # Undef =>
            width >= EvN(ev, "panelInfo", "min-width")
       /\ EvN(ev, "panelInfo", "max-width") # Undef =>
            width <= EvN(ev, "panelInfo", "max-width")
       /\ EvN(ev, "panelInfo", "min-height") # Undef =>
            height >= EvN(ev, "panelInfo", "min-height")
       /\ EvN(ev, "panelInfo", "max-height") # Undef =>
            height <= EvN(ev, "panelInfo", "max-height")

(* C20, amended: the window open creates for a fixed-size panel has the width
   and the height the manifest gives, 400 for one it does not give, whatever
   the layout profile holds; so its size is within the declared minimum and
   maximum when the manifest's width and height are. *)
C20_FixedSizeUsesManifest ==
  OpenedFixedSize =>
    LET ev == last.events
        width == EvN(ev, "setContentSize", "width")
        height == EvN(ev, "setContentSize", "height")
        mw == EvN(ev, "panelInfo", "width")
        mh == EvN(ev, "panelInfo", "height")
    IN /\ width = EvN(ev, "option", "width")
       /\ height = EvN(ev, "option", "height")
       /\ width = (IF mw = Undef THEN 400 ELSE mw)
       /\ height = (IF mh = Undef THEN 400 ELSE mh)

C20_Witness ==
  /\ OpenedFixedSize
  /\ EvN(last.events, "loadProfile", "width") = 250
  /\ EvN(last.events, "panelInfo", "width") = 300
  /\ EvN(last.events, "panelInfo", "min-width") = 200
  /\ EvN(last.events, "panelInfo", "max-width") = 400
  /\ EvN(last.events, "setContentSize", "width") = 300
  /\ EvN(last.events, "panelInfo", "height") = Undef
  /\ EvN(last.events, "setContentSize", "height") = 400

----------------------------------------------------------------------------
(* what the broadcasts of a package operation say *)

(* the places of the operation's broadcasts of channel with name p *)
SentAt(channel, p) ==
  {i \in DOMAIN sentToWindows : sentToWindows[i] = Broadcast(channel, p)}

LoadedAt(p) == SentAt("package:loaded", p)

DirectDeps(p) == {Deps(p)[i] : i \in DOMAIN Deps(p)}

(* every dependency of a package whose package:loaded is broadcast was
   loaded before the operation or has its package:loaded broadcast earlier *)
DepsLoadedFirst ==
  \A p \in Packages : \A i \in LoadedAt(p) : \A d \in AllDeps(p) :
    d \in pkgTask.before \/ \E j \in LoadedAt(d) : j < i

(* loading package-deps with none of the three loaded broadcasts
   package:loaded for dep-02, dep-01 and package-deps, in this order *)
PackageDepsExample ==
  (/\ pkgTask.op = "load" /\ pkgTask.path = "package-deps"
   /\ pkgTask.cb = "ok"
   /\ pkgTask.before \cap {"package-deps", "dep-01", "dep-02"} = {})
  => sentToWindows = <<Broadcast("package:loaded", "dep-02"),
                       Broadcast("package:loaded", "dep-01"),
                       Broadcast("package:loaded", "package-deps")>>

(* C21 as stated: loading P broadcasts package:loaded for each dependency,
   transitively, before it does for P, and for the dependencies P declares in
   the order of their declaration; loading package-deps broadcasts it for
   dep-02, dep-01, package-deps. *)
C21_Original ==
  /\ DepsLoadedFirst
  /\ PackageDepsExample
  /\ \A p \in Packages : LoadedAt(p) # {} =>
       \A a, b \in DOMAIN Deps(p) : a < b =>
         \A ja \in LoadedAt(Deps(p)[a]), jb \in LoadedAt(Deps(p)[b]) : ja < jb

(* C21: loading P broadcasts package:loaded for each dependency,
   transitively, before it does for P (a dependency loaded before the
   operation was broadcast then); the dependencies P declares are broadcast
   in the order of their declaration, except one that the operation loads
   earlier as a dependency of another package; loading package-deps
   broadcasts it for dep-02, dep-01, package-deps. *)
C21_DependenciesFirst ==
  /\ DepsLoadedFirst
  /\ PackageDepsExample
  /\ \A p \in Packages : LoadedAt(p) # {} =>
       \A a, b \in DOMAIN Deps(p) : a < b =>
         \A ja \in LoadedAt(Deps(p)[a]), jb \in LoadedAt(Deps(p)[b]) :
           \/ ja < jb
           \/ \E q \in (AllDeps(pkgTask.path) \cup {pkgTask.path}) \ {p} :
                Deps(p)[b] \in DirectDeps(q)

(* siblings was loaded with nothing loaded before: dep-02, which dep-01
   depends on, then dep-01, then simple, then siblings *)
C21_Witness ==
  /\ pkgTask.op = "load" /\ pkgTask.path = "siblings" /\ pkgTask.cb = "ok"
  /\ pkgTask.before = {}
  /\ Len(sentToWindows) = 4
  /\ sentToWindows[3] = Broadcast("package:loaded", "simple")

(* the packages whose own load fails *)
Failing ==
  {p \in Packages : ~DescriptorParses(p) \/ ~HostExists(p) \/ MainThrows(p)}

(* C22: a load of a package whose descriptor is malformed, whose declared
   host is absent or whose main script throws passes an error to its
   callback and broadcasts no package:loaded for it, and the package is not
   loaded; an unload of a package that is not loaded, such as one whose load
   failed, has nothing to do, changes nothing and its callback gets no
   error. *)
C22_FailedLoadReportsError ==
  /\ (pkgTask.op = "load" /\ pkgTask.path \in Failing) =>
       /\ LoadedAt(pkgTask.path) = {}
       /\ pkgTask.path \notin loadedPackages
       /\ pkgTask.cb \in {"pending", "err"}
       /\ pkgTask.cb = "err" =>
            pkgTask.err = (IF ~DescriptorParses(pkgTask.path)
                             THEN "InvalidManifest"
                           ELSE IF ~HostExists(pkgTask.path) THEN "MissingHost"
                           ELSE "EntryLoadError")
  /\ (pkgTask.op = "unload" /\ pkgTask.path \notin pkgTask.before) =>
       /\ pkgTask.queue = <<>> /\ pkgTask.err = ""
       /\ pkgTask.cb \in {"pending", "ok"}
       /\ sentToWindows = <<>>
       /\ loadedPackages = pkgTask.before

(* the load of host-not-exists failed and its unload then completed *)
C22_Witness ==
  /\ pkgTask.op = "unload" /\ pkgTask.path = "host-not-exists"
  /\ pkgTask.prev = <<"load", "host-not-exists", "err">>
  /\ pkgTask.cb = "ok"

UnloadedAt(p) == SentAt("package:unloaded", p)

(* C23: the packages a load operation has loaded are those it has broadcast
   package:loaded for, once each with the name of the package, and the
   packages an unload operation has unloaded are those it has broadcast
   package:unloaded for; when the callback of a load of a package that was
   not loaded runs without error the package is loaded, when that of an
   unload of a loaded package runs the package is unloaded, so its broadcast
   has been made. *)
C23_BroadcastBeforeCallback ==
  /\ pkgTask.op = "load" =>
       /\ \A p \in Packages :
            Cardinality(LoadedAt(p)) =
              (IF p \in loadedPackages \ pkgTask.before THEN 1 ELSE 0)
       /\ \A p \in Packages : UnloadedAt(p) = {}
       /\ pkgTask.cb = "ok" => pkgTask.path \in loadedPackages
  /\ pkgTask.op = "unload" =>
       /\ \A p \in Packages :
            Cardinality(UnloadedAt(p)) =
              (IF p \in pkgTask.before \ loadedPackages THEN 1 ELSE 0)
       /\ \A p \in Packages : LoadedAt(p) = {}
       /\ pkgTask.cb = "ok" => pkgTask.path \notin loadedPackages

(* simple was loaded and then unloaded, and the callback of unload has run *)
C23_Witness ==
  /\ pkgTask.op = "unload" /\ pkgTask.path = "simple" /\ pkgTask.cb = "ok"
  /\ pkgTask.prev = <<"load", "simple", "ok">>
  /\ sentToWindows = <<Broadcast("package:unloaded", "simple")>>

(* C24: the step that unloads a package P removes from the module cache
   exactly the modules recorded for P when it was loaded and adds none; every
   module a package that stays loaded requires is still cached; unloading
   main-deps removes its main.js, core/test.js, core/foo/bar.js and
   test.js. *)
C24_UnloadEvictsRecorded ==
  [][(pkgTask.op = "unload" /\ loadedPackages' # loadedPackages) =>
       \A p \in loadedPackages \ loadedPackages' :
         /\ loadedPackages' = loadedPackages \ {p}
         /\ requireCache' \subseteq requireCache
         /\ requireCache \ requireCache' = recordedModules[p]
         /\ \A q \in loadedPackages' : Requires(q) \subseteq requireCache'
         /\ FrameworkModules \subseteq requireCache'
         /\ p = "main-deps" =>
              requireCache \ requireCache' =
                {"main-deps/main.js", "main-deps/core/test.js",
                 "main-deps/core/foo/bar.js", "main-deps/test.js"}]_vars

(* unloading siblings has unloaded dep-01 while dep-02, a script of which
   dep-01 requires, is still loaded *)
C24_Witness ==
  /\ pkgTask.op = "unload" /\ pkgTask.path = "siblings"
  /\ sentToWindows = <<Broadcast("package:unloaded", "siblings"),
                       Broadcast("package:unloaded", "dep-01")>>
  /\ "dep-02" \in loadedPackages
  /\ "dep-02/lib.js" \in requireCache
  /\ "dep-01/main.js" \notin requireCache

(* C25 as stated: for a window of any kind, a request that is pending when
   close() has been called on the window is eventually removed from the
   callback table. *)
C25_Original ==
  \A w \in WinIds, s \in SessionIds :
    (native[w] = "closeRequested" /\ s \in win[w].replyCallbacks)
      ~> (s \notin win[w].replyCallbacks)

(* C25: for a window of any kind but quick, once close() has been called on
   the window its callback table is eventually empty, so every request
   pending then is removed; the handler of the closed event invokes every
   callback pending when it starts once more and leaves the table empty, a
   request registered by one of these callbacks included. *)
C25_NonQuickCloseResolves ==
  /\ \A w \in WinIds :
       (/\ native[w] = "closeRequested" /\ win[w].windowType # "quick"
        /\ win[w].replyCallbacks # {})
         ~> (win[w].replyCallbacks = {})
  /\ [][last'.op = "closed" =>
          /\ win'[last'.w].replyCallbacks = {}
          /\ \A s \in win[last'.w].replyCallbacks :
               invoked'[last'.w][s] = invoked[last'.w][s] + 1]_vars

(* a float window was closed with a request pending, whose callback
   registered another request that the loop of the handler did not visit *)
C25_Witness ==
  /\ last.op = "closed" /\ last.ret = 1
  /\ win[last.w].windowType = "float"
  /\ win[last.w].replyCallbacks = {}
  /\ issued[last.w] = {0, 1}
  /\ invoked[last.w][0] = 1 /\ invoked[last.w][1] = 0

(* C26: an open of a panel whose info is found leaves the panel docked in a
   window and the other docked panels where they are; an open of a panel
   that is docked creates no window and only sends panel:run with its argv
   to the panel and shows and focuses the window.  So the opens of a panel
   between two steps that undock it create at most one window. *)
C26_OpensCreateOneWindow ==
  [][(last'.op = "panel:open" /\ PanelInfo(last'.p) # "none") =>
       LET p == last'.p
           editorWin == Get(panel2windows, p)
       IN /\ Truthy(Get(panel2windows', p))
          /\ Get(panel2windows', p) \in Range(windows')
          /\ \A q \in AllPanelIDs :
               Truthy(Get(panel2windows, q)) =>
                 Get(panel2windows', q) = Get(panel2windows, q)
          /\ Truthy(editorWin) =>
               /\ nwin' = nwin /\ windows' = windows /\ native' = native
               /\ last'.events =
                    <<Ev("sendToPanel", "panel:run", NoWin, p, last'.n),
                      Ev("show", "", editorWin, <<>>, 0),
                      Ev("focus", "", editorWin, <<>>, 0)>>]_vars

(* a.b was opened with argv 1 and again with argv 2: still one window *)
C26_Witness ==
  /\ last.op = "panel:open" /\ last.p = PAB /\ last.n = 2
  /\ Len(last.events) = 3 /\ last.events[1].ev = "sendToPanel"
  /\ nwin = 1 /\ windows = <<1>>
  /\ Get(panel2windows, PAB) = 1

(* C27: every value of the panel-to-window mapping is a window of the window
   list: never null, never a window whose closed event was handled. *)
C27_MappingValuesAreWindows ==
  \A e \in panel2windows : e[2] # NoWin /\ e[2] \in Range(windows)

(* C28: the argv table holds for each panel the argv of the most recent open
   of it that found its panel info (an open, whether it creates a window or
   re-runs a docked panel, stores its argv, and no other step changes the
   table), and panel:ready for a panel sends one panel:run to it with the
   argv the table holds. *)
C28_ReadyRunsLatestArgv ==
  [][/\ (last'.op = "panel:open" /\ PanelInfo(last'.p) # "none") =>
          /\ Get(panel2argv', last'.p) = last'.n
          /\ \A q \in AllPanelIDs \ {last'.p} :
               Get(panel2argv', q) = Get(panel2argv, q)
     /\ ~(last'.op = "panel:open" /\ PanelInfo(last'.p) # "none") =>
          panel2argv' = panel2argv
     /\ last'.op = "panel:ready" =>
          last'.events = <<Ev("sendToPanel", "panel:run", NoWin, last'.p,
                             Get(panel2argv, last'.p))>>]_vars

(* a.b is docked in the only window created, its last open had argv 2, and
   panel:ready has sent panel:run with argv 2 *)
C28_Witness ==
  /\ last.op = "panel:ready" /\ last.p = PAB
  /\ last.events[1].ev = "sendToPanel" /\ last.events[1].n = 2
  /\ nwin = 1 /\ Get(panel2windows, PAB) = 1

(* C30: Panel.close of a panel that is docked in no window makes no call (no
   panel:undock message, no layout profile, no window closed) and changes
   neither the mapping nor a window; after any Panel.close of a panel the
   panel is docked in no window, so a second close right after it is this
   no-op. *)
C30_CloseUndockedNoOp ==
  [][last'.op = "panel:close" =>
       /\ ~Truthy(Get(panel2windows, last'.p)) =>
            /\ last'.events = <<>>
            /\ UNCHANGED <<windows, win, nwin, native, mainWindow, quit,
                           panel2windows, panel2argv>>
       /\ ~Truthy(Get(panel2windows', last'.p))]_vars

(* a.b was closed, which asked its window to close, and closed again *)
C30_Witness ==
  /\ last.op = "panel:close" /\ last.p = PAB /\ last.events = <<>>
  /\ ~Has(panel2windows, PAB)
  /\ native[1] = "closeRequested"

(* the names of the windows of the window list *)
ListedNames(ws) == {winName[ws[i]] : i \in DOMAIN ws}

(* saveWindowStates has just run: the 'close' handler, or window:save-layout
   from a window that was found *)
SavedStates(op) ==
  op.op = "close" \/ (op.op = "window:save-layout" /\ op.w # NoWin)

(* C29: after saveWindowStates runs outside test mode while a main window
   exists, the saved layout.windows profile holds one entry for exactly the
   names of the windows of the window list, each equal to what the layout
   table holds under that name, so that entries of windows no longer in the
   list are gone; in test mode or without a main window the saved profile
   is what it was *)
C29_SavedProfileMatchesList ==
  [][SavedStates(last') =>
       IF Persists(runMode, mainWindow)
         THEN /\ Keys(profileWindows') = ListedNames(windows')
              /\ Cardinality(profileWindows') = Cardinality(ListedNames(windows'))
              /\ \A name \in ListedNames(windows') :
                    Get(profileWindows', name) = LayoutOf(windowLayouts', name)
         ELSE profileWindows' = profileWindows]_vars

(* a save outside test mode with the main window in the list, after the
   window called aux was committed, saved and closed: the table still has
   its entry and the saved profile has the main window's only *)
C29_Witness ==
  /\ last.op = "window:save-layout"
  /\ last.w # NoWin
  /\ Persists(runMode, mainWindow)
  /\ ListedNames(windows) = {"main"}
  /\ Has(windowLayouts, "aux")
  /\ Keys(profileWindows) = {"main"}
  /\ Get(profileWindows, "main").layout = 1

(* how many calls of Editor._quit() the operation made *)
QuitCalls(events) == Cardinality({i \in DOMAIN events : events[i].ev = "quit"})

(* C31: only the closed event of the main window ends the application: when
   it is handled the window leaves the window list, Editor.mainWindow becomes
   null, quit is requested exactly once and isMainWindow is then false for
   every window; the closed event of any other window requests no quit and
   leaves Editor.mainWindow as it is; and no other step requests quit *)
C31_OnlyMainWindowQuits ==
  [][/\ last'.op = "closed" =>
          IF mainWindow = last'.w
            THEN /\ IndexOf(windows', last'.w, 1) = 0
                 /\ mainWindow' = NoWin
                 /\ quit' = quit + 1
                 /\ QuitCalls(last'.events) = 1
                 /\ \A v \in WinIds : ~IsMainWindow(v)'
            ELSE /\ quit' = quit
                 /\ QuitCalls(last'.events) = 0
                 /\ mainWindow' = mainWindow
     /\ quit' # quit => last'.op = "closed" /\ mainWindow = last'.w]_vars

(* the closed event of the main window was handled while another window is
   still in the list: quit was requested once and there is no main window *)
C31_Witness ==
  /\ last.op = "closed"
  /\ QuitCalls(last.events) = 1
  /\ quit = 1
  /\ mainWindow = NoWin
  /\ windows # <<>>
  /\ IndexOf(windows, last.w, 1) = 0
  /\ \A v \in WinIds : ~IsMainWindow(v)

====
